---- MODULE Spec2Model ----
(***************************************************************************)
(* A model of the PyRigCat command-dispatch and vendor-codec layer:        *)
(* PyRigCat (generic router, PTT), PyRigCat_ft817 (fixed-binary),          *)
(* PyRigCat_ft991 (ASCII-mnemonic), PyRigCat_icom / PyRigCat_ic7000        *)
(* (addressed-binary CI-V).                                                *)
(*                                                                         *)
(* Python str and bytes values are sequences of code points (0..255), so   *)
(* that upper(), strip(), isnumeric(), int(), zfill(), slicing and ASCII   *)
(* encoding/decoding are computed, not assumed.                            *)
(***************************************************************************)
EXTENDS Integers, Sequences, FiniteSets, TLC

(* The printable ASCII characters, code points 32..126 in order (the double
   quote, backslash and backtick are not used and stand as placeholders). *)
Chars ==
  <<
    " ", "!", "<dq>", "#", "$", "%", "&", "'", "(", ")", "*", "+", ",", "-", ".", "/",
    "0", "1", "2", "3", "4", "5", "6", "7", "8", "9", ":", ";", "<", "=", ">", "?",
    "@", "A", "B", "C", "D", "E", "F", "G", "H", "I", "J", "K", "L", "M", "N", "O",
    "P", "Q", "R", "S", "T", "U", "V", "W", "X", "Y", "Z", "[", "<bs>", "]", "^", "_",
    "<bt>", "a", "b", "c", "d", "e", "f", "g", "h", "i", "j", "k", "l", "m", "n", "o",
    "p", "q", "r", "s", "t", "u", "v", "w", "x", "y", "z", "{", "|", "}", "~"
  >>

(* ord(ch) for a printable ASCII character. *)
Ord(ch) == 31 + (CHOOSE i \in 1..Len(Chars) : Chars[i] = ch)

(* A Python string literal, written as the sequence of its characters. *)
Str(s) == [i \in 1..Len(s) |-> Ord(s[i])]

Min(a, b) == IF a < b THEN a ELSE b
Max(a, b) == IF a > b THEN a ELSE b

(* seq[i:j] of Python, with 0-based i, j >= 0 (clipped to the length). *)
Slice(s, i, j) == SubSeq(s, i + 1, Min(j, Len(s)))

(* s.startswith(p) *)
StartsWith(s, p) == Len(s) >= Len(p) /\ SubSeq(s, 1, Len(p)) = p

(* str.upper() on ASCII text. *)
Upper(s) == [i \in 1..Len(s) |-> IF s[i] \in 97..122 THEN s[i] - 32 ELSE s[i]]

(* The ASCII code points str.strip() removes. *)
Whitespace == (9..13) \cup (28..32)

RECURSIVE LStrip(_)
LStrip(s) == IF s # <<>> /\ Head(s) \in Whitespace THEN LStrip(Tail(s)) ELSE s

RECURSIVE RStrip(_)
RStrip(s) ==
  IF s # <<>> /\ s[Len(s)] \in Whitespace THEN RStrip(SubSeq(s, 1, Len(s) - 1)) ELSE s

(* str.strip() *)
Strip(s) == RStrip(LStrip(s))

(* str.isnumeric() on ASCII text: non-empty, decimal digits only. *)
IsNumeric(s) == s # <<>> /\ \A i \in 1..Len(s) : s[i] \in 48..57

RECURSIVE ToInt(_)
(* int(s) for a string of decimal digits. *)
ToInt(s) ==
  IF s = <<>> THEN 0 ELSE 10 * ToInt(SubSeq(s, 1, Len(s) - 1)) + (s[Len(s)] - 48)

RECURSIVE IntToStr(_)
(* str(n) for n >= 0. *)
IntToStr(n) == IF n < 10 THEN <<48 + n>> ELSE IntToStr(n \div 10) \o <<48 + (n % 10)>>

(* str.zfill(width) for text without a sign. *)
ZFill(s, width) == [i \in 1..(Max(width, Len(s)) - Len(s)) |-> 48] \o s

(* One upper-case hex digit, 0..15. *)
HexDigit(d) == IF d < 10 THEN 48 + d ELSE 55 + d

(* A byte as two upper-case hex digits. *)
Hex2(b) == <<HexDigit(b \div 16), HexDigit(b % 16)>>

(* Decoding bytes as ASCII succeeds exactly on code points below 128. *)
IsAscii(buf) == \A i \in 1..Len(buf) : buf[i] < 128

(***************************************************************************)
(* Python values that cross the command boundary.  A response is a str    *)
(* (tag "str"), a bool (tag "bool"), or the call ends by an uncaught       *)
(* exception (tag "raise", s the exception's name).                        *)
(***************************************************************************)
StrV(s) == [tag |-> "str", s |-> s, b |-> FALSE]
BoolV(b) == [tag |-> "bool", s |-> <<>>, b |-> b]
RaiseV(name) == [tag |-> "raise", s |-> name, b |-> FALSE]

(* Python truth value of a bool or a str. *)
Truthy(v) == IF v.tag = "bool" THEN v.b ELSE v.s # <<>>

(* PyRigCat.ERROR, PyRigCat.OK, PyRigCat.NOTFOUND *)
ERROR == Str(<<"E", "R", "R", "O", "R">>)
OK == Str(<<"O", "K">>)
NOTFOUND == Str(<<"N", "O", "T", " ", "F", "O", "U", "N", "D">>)

ON == Str(<<"O", "N">>)
OFF == Str(<<"O", "F", "F">>)
VfoA == Str(<<"A">>)
VfoB == Str(<<"B">>)

(* PttMethod *)
PttMethod_NONE == Str(<<"N", "O", "N", "E">>)
PttMethod_CAT == Str(<<"C", "A", "T">>)
PttMethod_DTR == Str(<<"D", "T", "R">>)
PttMethod_RTS == Str(<<"R", "T", "S">>)

(* The codec classes. *)
Codecs == {"BASE", "FT817", "FT991", "ICOM", "IC7000"}
IsIcom(codec) == codec \in {"ICOM", "IC7000"}

(* IcomAddr.NONE / IcomAddr.IC7000 as set by the constructors. *)
IcomAddrOf(codec) == IF codec = "IC7000" THEN 112 ELSE 0

(***************************************************************************)
(* A handler runs on a context c: the codec object's fields, the radio at  *)
(* the far end of the line, and the record of what the handler did on the  *)
(* transport (tlog: one entry per write), on the control lines (llog) and  *)
(* which VFO sets it called (calls).  A handler is the set of its possible *)
(* results [c, v]: the transport decides whether a write goes through and  *)
(* which bytes a read returns.                                             *)
(***************************************************************************)
Ret(c, v) == [c |-> c, v |-> v]

(* What a radio that received `frame` does.  The FT-817 toggles its VFO on
   opcode 0x81; nothing else of the radio is modelled. *)
DevStep(codec, radio, frame) ==
  IF codec = "FT817" /\ Len(frame) = 5 /\ frame[5] = 129
    THEN [radio EXCEPT !.vfo = IF @ = VfoA THEN VfoB ELSE VfoA]
    ELSE radio

(* The FT-817's answer to a 5-byte frame: two EEPROM bytes for opcode 0xBB
   (bit 0 of address 0x55 is the VFO in use), frequency and mode for 0x03
   (7.074 MHz USB), the 0x00 acknowledge otherwise. *)
DevReply817(radio, frame) ==
  IF Len(frame) # 5 THEN <<>>
  ELSE IF frame[5] = 187
    THEN IF frame[1] = 0 /\ frame[2] = 85
           THEN <<(IF radio.vfo = VfoB THEN 1 ELSE 0), 0>>
           ELSE <<0, 0>>
  ELSE IF frame[5] = 3 THEN <<0, 112, 116, 0, 1>>
  ELSE <<0>>

(* The FT-991's answer: the value for a query mnemonic, nothing for a set. *)
DevReply991(frame) ==
  IF frame = Str(<<"F", "A", ";">>) THEN Str(<<"F", "A", "0", "0", "7", "0", "7", "4", "0", "0", "0", ";">>)
  ELSE IF frame = Str(<<"F", "B", ";">>) THEN Str(<<"F", "B", "0", "1", "4", "0", "7", "4", "0", "0", "0", ";">>)
  ELSE IF frame = Str(<<"T", "X", ";">>) THEN Str(<<"T", "X", "0", ";">>)
  ELSE IF frame = Str(<<"F", "T", ";">>) THEN Str(<<"F", "T", "0", ";">>)
  ELSE IF frame = Str(<<"M", "D", "0", ";">>) THEN Str(<<"M", "D", "0", "2", ";">>)
  ELSE IF frame = Str(<<"M", "L", "0", ";">>) THEN Str(<<"M", "L", "0", "0", "0", "1", ";">>)
  ELSE IF frame = Str(<<"M", "L", "1", ";">>) THEN Str(<<"M", "L", "1", "0", "5", "0", ";">>)
  ELSE IF frame = Str(<<"P", "R", "0", ";">>) THEN Str(<<"P", "R", "0", "1", ";">>)
  ELSE IF frame = Str(<<"P", "L", ";">>) THEN Str(<<"P", "L", "0", "5", "0", ";">>)
  ELSE <<>>

(* The CI-V response frame of an Icom radio at address addr: the value for
   a read (frequency 0x03, mode 0x04, PTT 0x1C 0x00, RF power 0x14 0x0A at
   128 of 255, monitor on at level 128, speech processor on at level 5),
   the OK frame (0xFB) for everything else. *)
IcomResponse(addr, frame) ==
  LET body == SubSeq(frame, 5, Len(frame) - 1)
      data == IF body = <<3>> THEN <<3, 0, 64, 7, 7, 0>>
              ELSE IF body = <<4>> THEN <<4, 1, 1>>
              ELSE IF body = <<28, 0>> THEN <<28, 0, 0>>
              ELSE IF body = <<20, 10>> THEN <<20, 10, 1, 40>>
              ELSE IF body = <<26, 5, 0, 69>> THEN <<26, 5, 0, 69, 1>>
              ELSE IF body = <<26, 5, 0, 70>> THEN <<26, 5, 0, 70, 1, 40>>
              ELSE IF body = <<22, 68>> THEN <<22, 68, 1>>
              ELSE IF body = <<26, 5, 0, 148>> THEN <<26, 5, 0, 148, 5>>
              ELSE <<251>>
  IN <<254, 254, 224, addr>> \o data \o <<253>>

(* What arrives for the frame: an echoing line repeats the frame first. *)
DevReplyIcom(echo, addr, frame) ==
  IF Len(frame) < 6 THEN <<>>
  ELSE (IF echo THEN frame ELSE <<>>) \o IcomResponse(addr, frame)

DevReply(c, frame) ==
  IF c.codec = "FT817" THEN DevReply817(c.radio, frame)
  ELSE IF c.codec = "FT991" THEN DevReply991(frame)
  ELSE IF IsIcom(c.codec) THEN DevReplyIcom(c.echo, c.addr, frame)
  ELSE <<>>

(* The ways the line can treat the answer to the last frame written. *)
ReplyKinds(codec) ==
  IF codec = "FT817" THEN {"none", "good", "nak", "text"}
  ELSE IF codec = "FT991" THEN {"none", "good", "reject", "text"}
  ELSE IF IsIcom(codec) THEN {"none", "good", "short", "badterm", "noecho", "text"}
  ELSE {"none", "good", "nak", "text"}

ButLast(s) == SubSeq(s, 1, Len(s) - 1)

(* The bytes waiting at the port for a read: nothing (timeout), the radio's
   answer, one non-zero byte, the ASCII reject token '?;', the answer cut
   short by one byte, with a wrong last byte, or without the echo, or some
   other text. *)
WireOf(kind, good, c, frame) ==
  CASE kind = "none" -> <<>>
    [] kind = "good" -> good
    [] kind = "nak" -> <<240>>
    [] kind = "reject" -> Str(<<"?", ";">>)
    [] kind = "short" -> IF good = <<>> THEN <<>> ELSE ButLast(good)
    [] kind = "badterm" -> IF good = <<>> THEN <<>> ELSE ButLast(good) \o <<0>>
    [] kind = "noecho" -> IF Len(frame) < 6 THEN <<>> ELSE IcomResponse(c.addr, frame)
    [] kind = "text" -> NOTFOUND

Wire(kind, c, frame) == WireOf(kind, DevReply(c, frame), c, frame)

(* The number of transport faults (a write the port refuses, a read that
   is not the radio's answer) the line may produce within one call. *)
MaxFaults == 2

(* PyRigCat._serial_write: the number of bytes sent, 0 when the port raises. *)
serial_write(c, send_buf) ==
  { LET sent == IF w THEN Len(send_buf) ELSE 0 IN
    Ret([c EXCEPT !.tlog = Append(@, [frame |-> send_buf, sent |-> sent,
                                      reads |-> 0, asked |-> 0, kind |-> "",
                                      got |-> <<>>]),
                  !.radio = IF w THEN DevStep(c.codec, @, send_buf) ELSE @,
                  !.faults = IF w THEN @ ELSE @ + 1],
        sent)
    : w \in IF c.faults < MaxFaults THEN BOOLEAN ELSE {TRUE} }

(* PyRigCat._serial_read, its bookkeeping: the read took read_buf off the line *)
serial_read_done(c, num_bytes, kind, read_buf) ==
  Ret([c EXCEPT !.tlog[Len(c.tlog)] = [@ EXCEPT !.reads = @ + 1, !.asked = num_bytes,
                                                !.kind = kind, !.got = read_buf],
                !.faults = IF kind = "good" \/ c.tlog[Len(c.tlog)].sent = 0 THEN @ ELSE @ + 1],
      read_buf)

(* PyRigCat._serial_read: the first num_bytes bytes of what is on the line *)
serial_read_take(wire, num_bytes) == SubSeq(wire, 1, Min(num_bytes, Len(wire)))

(* PyRigCat._serial_read: at most num_bytes bytes, empty on a timeout or
   when the port raises.  Nothing arrives for a frame that was not sent. *)
serial_read(c, num_bytes) ==
  { serial_read_done(c, num_bytes, kind,
                     serial_read_take(Wire(kind, c, c.tlog[Len(c.tlog)].frame), num_bytes))
    : kind \in IF c.tlog[Len(c.tlog)].sent = 0 THEN {"none"}
               ELSE IF c.faults < MaxFaults THEN ReplyKinds(c.codec)
               ELSE {"good"} }

(* PyRigCat._set_dtr *)
set_dtr(c, dtr) ==
  { Ret([c EXCEPT !.llog = Append(@, [line |-> "DTR", val |-> dtr, ok |-> ok])], ok)
    : ok \in BOOLEAN }

(* PyRigCat._set_rts *)
set_rts(c, rts) ==
  { Ret([c EXCEPT !.llog = Append(@, [line |-> "RTS", val |-> rts, ok |-> ok])], ok)
    : ok \in BOOLEAN }

(* PyRigCat.get_ptt_method *)
get_ptt_method(c) == c.ptt_method

(* A setter that stores whatever it is given. *)
set_ptt_method_any(c, method) == Ret([c EXCEPT !.ptt_method = method], TRUE)

(* PyRigCat.set_ptt_method *)
set_ptt_method(c, method) ==
  IF method \in {PttMethod_CAT, PttMethod_DTR, PttMethod_RTS, PttMethod_NONE}
    THEN Ret([c EXCEPT !.ptt_method = method], TRUE)
    ELSE Ret(c, FALSE)

(* One entry of the record of internal calls: the function, its VFO
   argument, its max_data, its result, the length of the transport log
   when it was entered and when it returned, and the data it returned. *)
Call(fn, vfo, n, ok, t0, t1) ==
  [fn |-> fn, vfo |-> vfo, n |-> n, ok |-> ok, t0 |-> t0, t1 |-> t1, data |-> <<>>]

(***************************************************************************)
(* PyRigCat_icom.xcvr_cmd: one CI-V transaction.  scmd is <<>> for None.   *)
(* The value is [status, resp].  icom_status is its test "did we get the   *)
(* whole response".                                                        *)
(***************************************************************************)
(* A status test that looks at the length only. *)
icom_status_len_only(resp_buf, max_read) == Len(resp_buf) >= max_read

icom_status(resp_buf, max_read) ==
  Len(resp_buf) >= max_read /\ resp_buf[Len(resp_buf)] = 253

(* An overhead that leaves the echoed command out. *)
icom_ovhd_no_echo(echo, send_len) == 6

(* The bytes of a reply that are not data: preamble, addresses, command
   and terminator, and the echoed command when the line echoes. *)
icom_ovhd(echo, send_len) == 6 + (IF echo THEN send_len ELSE 0)

icom_xcvr_cmd(c, cmd, scmd, scmd_list, data, max_data) ==
  LET send_buf == <<254, 254, c.addr, 224, cmd>> \o scmd \o scmd_list \o data \o <<253>>
      send_len == Len(send_buf)
      ovhd == icom_ovhd(c.echo, send_len)
      max_read == max_data + ovhd
      Done(cc, status, resp) ==
        Ret([cc EXCEPT !.calls = Append(@, [Call("xcvr_cmd", <<>>, max_data, status,
                                                 Len(c.tlog), Len(cc.tlog))
                                              EXCEPT !.data = resp])],
            [status |-> status, resp |-> resp])
  IN UNION {
       IF w.v = send_len
         THEN { LET resp_buf == r.v
                    resp_len == Len(resp_buf)
                    idx == ovhd - 1
                    resp == IF resp_len > ovhd
                              THEN Slice(resp_buf, idx, idx + max_data)
                              ELSE <<>>
                    status == icom_status(resp_buf, max_read)
                IN Done(r.c, status, resp)
                : r \in serial_read(w.c, max_read) }
         ELSE { Done(w.c, FALSE, <<>>) }
       : w \in serial_write(c, send_buf) }

(***************************************************************************)
(* PyRigCat_ft991.xcvr_cmd: one ASCII transaction; the value is the reply  *)
(* text, 'READ ERROR' or 'WRITE ERROR'.                                    *)
(***************************************************************************)
ft991_xcvr_cmd(c, cmd, max_read) ==
  UNION {
    IF w.v = Len(cmd)
      THEN IF max_read > 0
             THEN { Ret(r.c, IF IsAscii(r.v) THEN r.v ELSE Str(<<"R", "E", "A", "D", " ", "E", "R", "R", "O", "R">>))
                    : r \in serial_read(w.c, max_read) }
             ELSE { Ret(w.c, <<>>) }
      ELSE { Ret(w.c, Str(<<"W", "R", "I", "T", "E", " ", "E", "R", "R", "O", "R">>)) }
    : w \in serial_write(c, cmd) }

(* PyRigCat.ptt_cat: the base class has no CAT control. *)
PyRigCat_ptt_cat(c, ptt_arg) ==
  IF ptt_arg = <<>>
    THEN { Ret(c, IF Truthy(c.ptt_is_on) THEN ON ELSE OFF) }
  ELSE IF ptt_arg = OFF
    THEN { Ret([c EXCEPT !.ptt_is_on = BoolV(FALSE)], ERROR) }
  ELSE IF ptt_arg = ON
    THEN { Ret([c EXCEPT !.ptt_is_on = BoolV(TRUE)], ERROR) }
  ELSE { Ret(c, ERROR) }

(* What PyRigCat_ft817.ptt_cat stores in _ptt_is_on after a set. *)
ft817_ptt_shadow(ptt_arg) == StrV(ptt_arg)

(* PyRigCat_ft817.ptt_cat *)
ft817_ptt_cat(c, ptt_arg) ==
  IF ptt_arg = <<>>
    THEN { Ret(c, IF Truthy(c.ptt_is_on) THEN ON ELSE OFF) }
    ELSE LET cmd == <<0, 0, 0, 0, (IF ptt_arg = ON THEN 8 ELSE 136)>> IN
         UNION { { IF Len(r.v) = 1
                     THEN Ret([r.c EXCEPT !.ptt_is_on = ft817_ptt_shadow(ptt_arg)], OK)
                     ELSE Ret(r.c, ERROR)
                   : r \in serial_read(w.c, 1) }
                 : w \in serial_write(c, cmd) }

(* PyRigCat_ft991.ptt_cat *)
ft991_ptt_cat(c, ptt_arg) ==
  LET sent == IF ptt_arg = OFF THEN ft991_xcvr_cmd(c, Str(<<"T", "X", "0", ";">>), 2)
              ELSE IF ptt_arg = ON THEN ft991_xcvr_cmd(c, Str(<<"T", "X", "1", ";">>), 2)
              ELSE IF ptt_arg = <<>> THEN ft991_xcvr_cmd(c, Str(<<"T", "X", ";">>), 4)
              ELSE { Ret(c, ERROR) }
  IN { IF x.v = <<>>
         THEN Ret([x.c EXCEPT !.ptt_is_on = IF ptt_arg = OFF THEN BoolV(FALSE)
                                            ELSE IF ptt_arg = ON THEN BoolV(TRUE)
                                            ELSE @], OK)
       ELSE IF x.v = Str(<<"?", ";">>) THEN Ret(x.c, ERROR)
       ELSE IF x.v = Str(<<"T", "X", "0", ";">>)
         THEN Ret([x.c EXCEPT !.ptt_is_on = BoolV(FALSE)], OFF)
       ELSE IF x.v = Str(<<"T", "X", "1", ";">>) \/ x.v = Str(<<"T", "X", "2", ";">>)
         THEN Ret([x.c EXCEPT !.ptt_is_on = BoolV(TRUE)], ON)
       ELSE x
       : x \in sent }

(* PyRigCat_icom.ptt_cat *)
icom_ptt_cat(c, ptt_arg) ==
  IF ptt_arg \notin {OFF, ON, <<>>}
    THEN { Ret(c, ERROR) }
    ELSE LET data == IF ptt_arg = OFF THEN <<0>> ELSE IF ptt_arg = ON THEN <<1>> ELSE <<>>
             max_data == IF ptt_arg = <<>> THEN 2 ELSE 0
         IN { IF x.v.status
                THEN IF ptt_arg = <<>>
                       THEN Ret(x.c, IF x.v.resp[2] = 0 THEN OFF
                                     ELSE IF x.v.resp[2] = 1 THEN ON ELSE ERROR)
                       ELSE Ret(x.c, OK)
                ELSE Ret(x.c, ERROR)
              : x \in icom_xcvr_cmd(c, 28, <<0>>, <<>>, data, max_data) }

(* self.ptt_cat: the override of the codec's class. *)
ptt_cat(c, ptt_arg) ==
  IF c.codec = "FT817" THEN ft817_ptt_cat(c, ptt_arg)
  ELSE IF c.codec = "FT991" THEN ft991_ptt_cat(c, ptt_arg)
  ELSE IF IsIcom(c.codec) THEN icom_ptt_cat(c, ptt_arg)
  ELSE PyRigCat_ptt_cat(c, ptt_arg)

(* A DTR branch that takes the requested state before it knows whether the
   line was set. *)
ptt_cmd_dtr_eager(c, ptt_arg) ==
  IF ptt_arg = <<>>
    THEN { Ret(c, StrV(IF Truthy(c.ptt_is_on) THEN ON ELSE OFF)) }
  ELSE IF ptt_arg = ON \/ ptt_arg = OFF
    THEN { Ret([x.c EXCEPT !.ptt_is_on = BoolV(ptt_arg = ON)], StrV(IF x.v THEN OK ELSE ERROR))
           : x \in set_dtr(c, ptt_arg = ON) }
  ELSE { Ret(c, StrV(ERROR)) }

(* The DTR branch of PyRigCat.ptt_cmd. *)
ptt_cmd_dtr(c, ptt_arg) ==
  IF ptt_arg = <<>>
    THEN { Ret(c, StrV(IF Truthy(c.ptt_is_on) THEN ON ELSE OFF)) }
  ELSE IF ptt_arg = ON
    THEN { IF x.v THEN Ret([x.c EXCEPT !.ptt_is_on = BoolV(TRUE)], StrV(OK))
                  ELSE Ret(x.c, StrV(ERROR))
           : x \in set_dtr(c, TRUE) }
  ELSE IF ptt_arg = OFF
    THEN { IF x.v THEN Ret([x.c EXCEPT !.ptt_is_on = BoolV(FALSE)], StrV(OK))
                  ELSE Ret(x.c, StrV(ERROR))
           : x \in set_dtr(c, FALSE) }
  ELSE { Ret(c, StrV(ERROR)) }

(* The RTS branch of PyRigCat.ptt_cmd: self.self does not exist, so a set
   ends in an AttributeError before any line is touched. *)
ptt_cmd_rts(c, ptt_arg) ==
  IF ptt_arg = <<>>
    THEN { Ret(c, StrV(IF Truthy(c.ptt_is_on) THEN ON ELSE OFF)) }
  ELSE IF ptt_arg = ON \/ ptt_arg = OFF
    THEN { Ret(c, RaiseV(Str(<<"A", "t", "t", "r", "i", "b", "u", "t", "e", "E", "r", "r", "o", "r">>))) }
  ELSE { Ret(c, StrV(ERROR)) }

(* PyRigCat.ptt_cmd *)
ptt_cmd(c, ptt_arg) ==
  IF c.ptt_method = PttMethod_CAT
    THEN { Ret(x.c, StrV(x.v)) : x \in ptt_cat(c, ptt_arg) }
  ELSE IF c.ptt_method = PttMethod_DTR THEN ptt_cmd_dtr(c, ptt_arg)
  ELSE IF c.ptt_method = PttMethod_RTS THEN ptt_cmd_rts(c, ptt_arg)
  ELSE { Ret(c, StrV(ERROR)) }

(* PyRigCat.raw_ascii_str (max_read = 1000): the reply text as it came. *)
raw_ascii_str(c, ascii_str) ==
  UNION {
    IF w.v = Len(ascii_str)
      THEN { Ret(r.c, IF IsAscii(r.v) THEN r.v ELSE <<>>) : r \in serial_read(w.c, 1000) }
      ELSE { Ret(w.c, <<>>) }
    : w \in serial_write(c, ascii_str) }

(* A valid argument of int(hex_str, base=16): hex digits only. *)
IsHex(s) ==
  s # <<>> /\ \A i \in 1..Len(s) : s[i] \in (48..57) \cup (65..70) \cup (97..102)

RECURSIVE HexToInt(_)
HexToInt(s) ==
  IF s = <<>> THEN 0
  ELSE LET ch == s[Len(s)]
           d == IF ch \in 48..57 THEN ch - 48
                ELSE IF ch \in 65..70 THEN ch - 55 ELSE ch - 87
       IN 16 * HexToInt(ButLast(s)) + d

RECURSIVE HexJoin(_)
(* Each byte as two hex digits and a blank, then strip(). *)
HexJoin(buf) == IF buf = <<>> THEN <<>> ELSE Hex2(Head(buf)) \o <<32>> \o HexJoin(Tail(buf))

(* PyRigCat.raw_hex_list (max_read = 1000): int() and bytearray() raise a
   ValueError on a bad digit and on a value above 255. *)
raw_hex_list(c, hex_str_list) ==
  IF \E i \in 1..Len(hex_str_list) :
       ~IsHex(hex_str_list[i]) \/ HexToInt(hex_str_list[i]) > 255
    THEN { Ret(c, RaiseV(Str(<<"V", "a", "l", "u", "e", "E", "r", "r", "o", "r">>))) }
    ELSE LET send_buf == [i \in 1..Len(hex_str_list) |-> HexToInt(hex_str_list[i])] IN
         UNION {
           IF w.v = Len(send_buf)
             THEN { Ret(r.c, StrV(Strip(HexJoin(r.v)))) : r \in serial_read(w.c, 1000) }
             ELSE { Ret(w.c, StrV(<<>>)) }
           : w \in serial_write(c, send_buf) }

RECURSIVE JoinArgs(_)
(* The loop of the ASCII branch: each argument followed by a blank. *)
JoinArgs(arg_list) ==
  IF arg_list = <<>> THEN <<>> ELSE Head(arg_list) \o <<32>> \o JoinArgs(Tail(arg_list))

(* The command names PyRigCat.ascii_cmd resolves itself. *)
GenericNames == {Str(<<"P", "T", "T">>), Str(<<"P", "T", "T", "-", "M", "E", "T", "H", "O", "D">>), Str(<<"A", "S", "C", "I", "I">>), Str(<<"H", "E", "X">>)}

(* PyRigCat.ascii_cmd: the generic router. *)
PyRigCat_ascii_cmd(c, cmd_str, arg_list) ==
  LET cmd == Upper(cmd_str) IN
  IF cmd = Str(<<"P", "T", "T">>)
    THEN ptt_cmd(c, IF Len(arg_list) > 0 THEN Strip(Upper(arg_list[1])) ELSE <<>>)
  ELSE IF cmd = Str(<<"P", "T", "T", "-", "M", "E", "T", "H", "O", "D">>)
    THEN IF Len(arg_list) > 0
           THEN LET x == set_ptt_method(c, arg_list[1]) IN { Ret(x.c, BoolV(x.v)) }
           ELSE { Ret(c, StrV(get_ptt_method(c))) }
  ELSE IF cmd = Str(<<"A", "S", "C", "I", "I">>)
    THEN { Ret(x.c, StrV(x.v)) : x \in raw_ascii_str(c, Strip(JoinArgs(arg_list))) }
  ELSE IF cmd = Str(<<"H", "E", "X">>)
    THEN raw_hex_list(c, arg_list)
  ELSE { Ret(c, StrV(NOTFOUND)) }

(***************************************************************************)
(* PyRigCat_ft817: the fixed-binary codec.                                 *)
(***************************************************************************)

(* str.lower() on ASCII text. *)
Lower(s) == [i \in 1..Len(s) |-> IF s[i] \in 65..90 THEN s[i] + 32 ELSE s[i]]

(* int(addr_str, base) of eeprom_read_cmd as (valid, value): base 16 after
   a 0x prefix, else base 10 with an optional sign.  Digit separators are
   left out. *)
eeprom_addr(addr_str) ==
  LET hex == StartsWith(Lower(addr_str), Str(<<"0", "x">>))
      signed == ~hex /\ Len(addr_str) > 0 /\ addr_str[1] \in {43, 45}
      digits == IF hex THEN SubSeq(addr_str, 3, Len(addr_str))
                ELSE IF signed THEN Tail(addr_str) ELSE addr_str
      valid == IF hex THEN IsHex(digits) ELSE IsNumeric(digits)
      mag == IF hex THEN HexToInt(digits) ELSE ToInt(digits)
  IN <<valid, IF signed /\ addr_str[1] = 45 THEN 0 - mag ELSE mag>>

(* An eeprom_read_cmd that sends the address low byte first. *)
ft817_eeprom_read_cmd_swapped(c, addr_str) ==
  LET iaddr == eeprom_addr(addr_str)[2]
      addr_ok == eeprom_addr(addr_str)[1] /\ iaddr >= 0 /\ iaddr <= 6437
      cmd == <<iaddr % 256, iaddr \div 256, 0, 0, 187>>
  IN IF ~addr_ok
       THEN { Ret(c, [resp |-> ERROR, d1 |-> 0, d2 |-> 0]) }
       ELSE UNION { { IF Len(r.v) = 2
                        THEN Ret(r.c, [resp |-> OK, d1 |-> r.v[1], d2 |-> r.v[2]])
                        ELSE Ret(r.c, [resp |-> ERROR, d1 |-> 0, d2 |-> 0])
                      : r \in serial_read(w.c, 2) }
                    : w \in serial_write(c, cmd) }

(* PyRigCat_ft817.eeprom_read_cmd; the value is (resp, d1, d2).  The write's
   result is not looked at. *)
ft817_eeprom_read_cmd(c, addr_str) ==
  LET iaddr == eeprom_addr(addr_str)[2]
      addr_ok == eeprom_addr(addr_str)[1] /\ iaddr >= 0 /\ iaddr <= 6437
      cmd == <<iaddr \div 256, iaddr % 256, 0, 0, 187>>
  IN IF ~addr_ok
       THEN { Ret(c, [resp |-> ERROR, d1 |-> 0, d2 |-> 0]) }
       ELSE UNION { { IF Len(r.v) = 2
                        THEN Ret(r.c, [resp |-> OK, d1 |-> r.v[1], d2 |-> r.v[2]])
                        ELSE Ret(r.c, [resp |-> ERROR, d1 |-> 0, d2 |-> 0])
                      : r \in serial_read(w.c, 2) }
                    : w \in serial_write(c, cmd) }

UNKNOWN == Str(<<"U", "N", "K", "N", "O", "W", "N">>)

(* The first byte of the frame PyRigCat_ft817.set_mode sends for a mode, -1
   when it sends nothing. *)
ft817_mode_code(mode) ==
  IF mode = Str(<<"L", "S", "B">>) THEN 0
  ELSE IF mode = Str(<<"U", "S", "B">>) THEN 1
  ELSE IF mode = Str(<<"C", "W">>) THEN 2
  ELSE IF mode = Str(<<"C", "W", "-", "R">>) THEN 3
  ELSE IF mode = Str(<<"A", "M">>) THEN 4
  ELSE IF mode = Str(<<"F", "M">>) THEN 8
  ELSE IF mode = Str(<<"D", "I", "G", "I">>) THEN 10
  ELSE IF mode = Str(<<"P", "K", "T">>) THEN 12
  ELSE -1

(* The mode PyRigCat_ft817.get_mode names for the mode byte of the reply.
   OperatingMode has no attribute CWR or WFM: the branches of 3 and 6 raise
   AttributeError. *)
ft817_mode_name(mode_val) ==
  IF mode_val = 0 THEN StrV(Str(<<"L", "S", "B">>))
  ELSE IF mode_val = 1 THEN StrV(Str(<<"U", "S", "B">>))
  ELSE IF mode_val = 2 THEN StrV(Str(<<"C", "W">>))
  ELSE IF mode_val = 3 THEN RaiseV(Str(<<"A", "t", "t", "r", "i", "b", "u", "t", "e", "E", "r", "r", "o", "r">>))
  ELSE IF mode_val = 4 THEN StrV(Str(<<"A", "M">>))
  ELSE IF mode_val = 6 THEN RaiseV(Str(<<"A", "t", "t", "r", "i", "b", "u", "t", "e", "E", "r", "r", "o", "r">>))
  ELSE IF mode_val = 8 THEN StrV(Str(<<"F", "M">>))
  ELSE IF mode_val = 10 THEN StrV(Str(<<"D", "I", "G", "I">>))
  ELSE IF mode_val = 12 THEN StrV(Str(<<"P", "K", "T">>))
  ELSE StrV(UNKNOWN)

(* PyRigCat_ft817.get_vfo: 'A', 'B' or ERROR. *)
ft817_get_vfo(c) ==
  { Ret(x.c, IF x.v.resp = OK
               THEN (IF x.v.d1 % 2 = 1 THEN VfoB ELSE VfoA)
               ELSE x.v.resp)
    : x \in ft817_eeprom_read_cmd(c, IntToStr(85)) }

(* A set_vfo that toggles without comparing the VFO read with the target. *)
ft817_set_vfo_blind(c, vfo) ==
  LET Done(cc, ok) == Ret([cc EXCEPT !.calls = Append(@, Call("set_vfo", vfo, 0, ok,
                                             Len(c.tlog), Len(cc.tlog)))], ok)
  IN UNION {
       IF g.v # VfoA /\ g.v # VfoB THEN { Done(g.c, FALSE) }
       ELSE IF vfo = VfoA \/ vfo = VfoB
         THEN UNION { { Done(r.c, Len(r.v) = 1 /\ r.v[1] = 0)
                        : r \in serial_read(w.c, 1) }
                      : w \in serial_write(g.c, <<0, 0, 0, 0, 129>>) }
       ELSE { Done(g.c, FALSE) }
       : g \in ft817_get_vfo(c) }

(* PyRigCat_ft817.set_vfo; the value is ok. *)
ft817_set_vfo(c, vfo) ==
  LET Done(cc, ok) == Ret([cc EXCEPT !.calls = Append(@, Call("set_vfo", vfo, 0, ok,
                                             Len(c.tlog), Len(cc.tlog)))], ok)
  IN UNION {
       IF g.v # VfoA /\ g.v # VfoB THEN { Done(g.c, FALSE) }
       ELSE IF vfo = VfoA \/ vfo = VfoB
         THEN IF vfo # g.v
                THEN UNION { { Done(r.c, Len(r.v) = 1 /\ r.v[1] = 0)
                               : r \in serial_read(w.c, 1) }
                             : w \in serial_write(g.c, <<0, 0, 0, 0, 129>>) }
                ELSE { Done(g.c, TRUE) }
       ELSE { Done(g.c, FALSE) }
       : g \in ft817_get_vfo(c) }

(* The value of two packed BCD digits. *)
BcdByte(b) == (b \div 16) * 10 + (b % 16)

(* The frequency get_frequency_hz reads from the first four bytes of the
   reply: eight BCD digits, the last of them the tens of Hz. *)
ft817_freq_of(rcv_data) ==
  10 * (BcdByte(rcv_data[1]) * 1000000 + BcdByte(rcv_data[2]) * 10000
        + BcdByte(rcv_data[3]) * 100 + BcdByte(rcv_data[4]))

(* PyRigCat_ft817.get_frequency_hz: 0 when the read fails. *)
ft817_get_frequency_hz(c) ==
  UNION {
    IF w.v = 5
      THEN { Ret(r.c, IF Len(r.v) = 5 THEN ft817_freq_of(r.v) ELSE 0)
             : r \in serial_read(w.c, 5) }
      ELSE { Ret(w.c, 0) }
    : w \in serial_write(c, <<0, 0, 0, 0, 3>>) }

(* The decimal digit of n at 10^k. *)
DigitAt(n, k) == (n \div (10 ^ k)) % 10

(* The frequency limits of set_frequency_hz. *)
FreqMin == 100000
FreqMax == 450000000

(* The range check of set_frequency_hz. *)
FreqInRange(freq) == ~(freq < FreqMin \/ freq > FreqMax)

(* The four bytes set_frequency_hz makes of freq: the eight digits from 10^8
   down to 10^1, packed two to a byte. *)
ft817_freq_bcd(freq) ==
  [i \in 1..4 |-> DigitAt(freq, 10 - 2 * i) * 16 + DigitAt(freq, 9 - 2 * i)]

(* PyRigCat_ft817.set_frequency_hz: the four BCD bytes, then opcode 0x01. *)
ft817_set_frequency_hz(c, freq) ==
  IF ~FreqInRange(freq) THEN { Ret(c, FALSE) }
  ELSE LET cmd == ft817_freq_bcd(freq) \o <<1>>
       IN UNION {
            IF w.v = 5
              THEN { Ret(r.c, Len(r.v) = 1 /\ r.v[1] = 0) : r \in serial_read(w.c, 1) }
              ELSE { Ret(w.c, FALSE) }
            : w \in serial_write(c, cmd) }

(* frequency_cmd, "Set the VFO": switch to the addressed VFO if it is the
   other one. *)
ft817_freq_switch(c, vfo, saved_vfo) ==
  IF vfo = VfoA /\ saved_vfo = VfoB THEN ft817_set_vfo(c, VfoA)
  ELSE IF vfo = VfoB /\ saved_vfo = VfoA THEN ft817_set_vfo(c, VfoB)
  ELSE { Ret(c, TRUE) }

(* A frequency_cmd that takes every number it is given for a frequency
   to set. *)
ft817_freq_body_always_set(c, freq_hz, vfo_ok) ==
  IF ~vfo_ok THEN { Ret(c, ERROR) }
  ELSE { Ret(x.c, IF x.v THEN OK ELSE ERROR) : x \in ft817_set_frequency_hz(c, freq_hz) }

(* frequency_cmd, the set or get once the VFO is selected. *)
ft817_freq_body(c, freq_hz, vfo_ok) ==
  IF ~vfo_ok THEN { Ret(c, ERROR) }
  ELSE IF freq_hz > 0
    THEN { Ret(x.c, IF x.v THEN OK ELSE ERROR) : x \in ft817_set_frequency_hz(c, freq_hz) }
    ELSE { Ret(x.c, IF x.v > 0 THEN ZFill(IntToStr(x.v), 9) ELSE ERROR)
           : x \in ft817_get_frequency_hz(c) }

(* A frequency_cmd that leaves the radio on the VFO it switched to. *)
ft817_freq_no_restore(c, vfo, saved_vfo, vfo_ok) == { c }

(* frequency_cmd, "Reset the VFO". *)
ft817_freq_restore(c, vfo, saved_vfo, vfo_ok) ==
  IF vfo_ok /\ vfo # saved_vfo
    THEN { x.c : x \in ft817_set_vfo(c, saved_vfo) }
    ELSE { c }

(* PyRigCat_ft817.frequency_cmd *)
ft817_frequency_cmd(c, freq_hz_str, vfo) ==
  IF Len(freq_hz_str) > 0 /\ ~IsNumeric(freq_hz_str) THEN { Ret(c, ERROR) }
  ELSE LET freq_hz == IF Len(freq_hz_str) > 0 THEN ToInt(freq_hz_str) ELSE 0 IN
    UNION {
      IF g.v = ERROR THEN { Ret(g.c, ERROR) }
      ELSE UNION { UNION { { Ret(cc, b.v)
                             : cc \in ft817_freq_restore(b.c, vfo, g.v, s.v) }
                           : b \in ft817_freq_body(s.c, freq_hz, s.v) }
                   : s \in ft817_freq_switch(g.c, vfo, g.v) }
      : g \in ft817_get_vfo(c) }

(* PyRigCat_ft817.get_split *)
ft817_get_split(c) ==
  { Ret(x.c, IF x.v.resp = OK
               THEN (IF (x.v.d1 \div 128) % 2 = 1 THEN ON ELSE OFF)
               ELSE x.v.resp)
    : x \in ft817_eeprom_read_cmd(c, IntToStr(122)) }

(* PyRigCat_ft817.set_split *)
ft817_set_split(c, split) ==
  UNION { { Ret(r.c, IF Len(r.v) = 1 THEN OK ELSE ERROR) : r \in serial_read(w.c, 1) }
          : w \in serial_write(c, <<0, 0, 0, 0, (IF split THEN 2 ELSE 130)>>) }

(* The first argument, or '' ; upper-cased for the commands that do so. *)
Arg0(arg_list) == IF Len(arg_list) > 0 THEN Strip(arg_list[1]) ELSE <<>>
Arg0Upper(arg_list) == IF Len(arg_list) > 0 THEN Strip(Upper(arg_list[1])) ELSE <<>>

(* The second argument upper-cased, or ''. *)
Arg1Upper(arg_list) == IF Len(arg_list) > 1 THEN Strip(Upper(arg_list[2])) ELSE <<>>

(* int(s) succeeds: decimal digits after an optional sign (the texts the
   callers pass have no digit-group underscores). *)
IsSignedInt(s) == s # <<>> /\ IsNumeric(IF s[1] \in {43, 45} THEN Tail(s) ELSE s)

(* int(s) for such a text. *)
SignedInt(s) ==
  IF s[1] = 45 THEN 0 - ToInt(Tail(s))
  ELSE IF s[1] = 43 THEN ToInt(Tail(s))
  ELSE ToInt(s)

(* PyRigCat_ft817.rpt_shift_cmd: the result of the write is not looked at. *)
ft817_rpt_shift_cmd(c, shift) ==
  LET b == IF shift = Str(<<"-">>) THEN 9
           ELSE IF shift = Str(<<"+">>) THEN 73
           ELSE IF shift = Str(<<"0">>) THEN 137
           ELSE 0
  IN IF b = 0 THEN { Ret(c, ERROR) }
     ELSE UNION { { Ret(r.c, IF Len(r.v) = 1 /\ r.v[1] = 0 THEN OK ELSE ERROR)
                    : r \in serial_read(w.c, 1) }
                  : w \in serial_write(c, <<b, 0, 0, 0, 9>>) }

(* The offset frame of rpt_offset_cmd: eight BCD digits of the magnitude,
   two to a byte, and opcode 0xF9. *)
ft817_rpt_offset_frame(ifreq) ==
  <<DigitAt(ifreq, 7) * 16 + DigitAt(ifreq, 6), DigitAt(ifreq, 5) * 16 + DigitAt(ifreq, 4),
    DigitAt(ifreq, 3) * 16 + DigitAt(ifreq, 2), DigitAt(ifreq, 1) * 16 + DigitAt(ifreq, 0), 249>>

(* The last transaction of rpt_offset_cmd. *)
ft817_rpt_offset_send(c, ifreq) ==
  UNION { { Ret(r.c, IF Len(r.v) = 1 /\ r.v[1] = 0 THEN OK ELSE ERROR)
            : r \in serial_read(w.c, 1) }
          : w \in serial_write(c, ft817_rpt_offset_frame(ifreq)) }

(* An offset command that sends the magnitude whatever the shift said. *)
ft817_rpt_offset_cmd_eager(c, freq) ==
  IF ~IsSignedInt(freq) THEN { Ret(c, ERROR) }
  ELSE LET ifreq == SignedInt(freq) IN
       IF ~(ifreq >= -9999999 /\ ifreq <= 9999999) THEN { Ret(c, ERROR) }
       ELSE IF ifreq = 0 THEN ft817_rpt_shift_cmd(c, Str(<<"0">>))
       ELSE UNION { ft817_rpt_offset_send(s.c, IF ifreq < 0 THEN 0 - ifreq ELSE ifreq)
                    : s \in ft817_rpt_shift_cmd(c, IF ifreq < 0 THEN Str(<<"-">>) ELSE Str(<<"+">>)) }

(* PyRigCat_ft817.rpt_offset_cmd *)
ft817_rpt_offset_cmd(c, freq) ==
  IF ~IsSignedInt(freq) THEN { Ret(c, ERROR) }
  ELSE LET ifreq == SignedInt(freq) IN
       IF ~(ifreq >= -9999999 /\ ifreq <= 9999999) THEN { Ret(c, ERROR) }
       ELSE IF ifreq = 0 THEN ft817_rpt_shift_cmd(c, Str(<<"0">>))
       ELSE UNION { IF s.v = OK
                      THEN ft817_rpt_offset_send(s.c, IF ifreq < 0 THEN 0 - ifreq ELSE ifreq)
                      ELSE { Ret(s.c, ERROR) }
                    : s \in ft817_rpt_shift_cmd(c, IF ifreq < 0 THEN Str(<<"-">>) ELSE Str(<<"+">>)) }

(* The write and one-byte read the FT-817 tone methods end with: the result
   of the write is not looked at; True for the single byte 0x00. *)
ft817_send_ack(c, frame) ==
  UNION { { Ret(r.c, Len(r.v) = 1 /\ r.v[1] = 0) : r \in serial_read(w.c, 1) }
          : w \in serial_write(c, frame) }

(* PyRigCat_ft817.tone_mode_cmd *)
ft817_tone_mode_cmd(c, mode) ==
  IF mode = OFF THEN ft817_send_ack(c, <<138, 0, 0, 0, 10>>)
  ELSE IF mode = Str(<<"E", "N", "C">>) THEN ft817_send_ack(c, <<74, 0, 0, 0, 10>>)
  ELSE IF mode = Str(<<"D", "E", "C">>) THEN ft817_send_ack(c, <<42, 0, 0, 0, 10>>)
  ELSE { Ret(c, FALSE) }

(* A tone_freq_cmd that sends whatever number it is given. *)
ft817_tone_freq_cmd_unchecked(c, freq) ==
  IF ~IsSignedInt(freq) THEN { Ret(c, FALSE) }
  ELSE LET ifreq == SignedInt(freq) IN
       IF ifreq < 0 THEN { Ret(c, FALSE) }
       ELSE ft817_send_ack(c, <<DigitAt(ifreq, 3) * 16 + DigitAt(ifreq, 2),
                                DigitAt(ifreq, 1) * 16 + DigitAt(ifreq, 0), 0, 0, 11>>)

(* PyRigCat_ft817.tone_freq_cmd *)
ft817_tone_freq_cmd(c, freq) ==
  IF ~IsSignedInt(freq) THEN { Ret(c, FALSE) }
  ELSE LET ifreq == SignedInt(freq) IN
       IF ~(ifreq >= 670 /\ ifreq <= 2541) THEN { Ret(c, FALSE) }
       ELSE ft817_send_ack(c, <<DigitAt(ifreq, 3) * 16 + DigitAt(ifreq, 2),
                                DigitAt(ifreq, 1) * 16 + DigitAt(ifreq, 0), 0, 0, 11>>)

(* PyRigCat_ft817.tone_cmd *)
ft817_tone_cmd(c, mode, freq) ==
  IF mode # OFF /\ ~IsNumeric(freq) THEN { Ret(c, ERROR) }
  ELSE UNION { IF m.v /\ mode # OFF
                 THEN { Ret(f.c, IF f.v THEN OK ELSE ERROR) : f \in ft817_tone_freq_cmd(m.c, freq) }
                 ELSE { Ret(m.c, IF m.v THEN OK ELSE ERROR) }
               : m \in ft817_tone_mode_cmd(c, mode) }

(* The vendor command names of PyRigCat_ft817.ascii_cmd that are modelled. *)
Ft817Names == {Str(<<"T", "O", "N", "E">>), Str(<<"E", "E", "P", "R", "O", "M", "-", "R", "E", "A", "D">>), Str(<<"R", "P", "T", "-", "O", "F", "F", "S", "E", "T">>), Str(<<"F", "R", "E", "Q">>), Str(<<"F", "R", "E", "Q", "A">>), Str(<<"F", "R", "E", "Q", "B">>), Str(<<"S", "P", "L", "I", "T">>), Str(<<"V", "F", "O">>)}

(* PyRigCat_ft817.ascii_cmd after the generic router returned NOTFOUND. *)
ft817_vendor_cmd(c, cmd, arg_list) ==
  IF cmd = Str(<<"F", "R", "E", "Q">>) THEN ft817_frequency_cmd(c, Arg0(arg_list), <<>>)
  ELSE IF cmd = Str(<<"F", "R", "E", "Q", "A">>) THEN ft817_frequency_cmd(c, Arg0(arg_list), VfoA)
  ELSE IF cmd = Str(<<"F", "R", "E", "Q", "B">>) THEN ft817_frequency_cmd(c, Arg0(arg_list), VfoB)
  ELSE IF cmd = Str(<<"S", "P", "L", "I", "T">>)
    THEN LET split_onoff == Arg0Upper(arg_list) IN
         IF Len(split_onoff) > 0
           THEN IF split_onoff = OFF THEN ft817_set_split(c, FALSE)
                ELSE IF split_onoff = ON THEN ft817_set_split(c, TRUE)
                ELSE { Ret(c, ERROR) }
           ELSE ft817_get_split(c)
  ELSE IF cmd = Str(<<"V", "F", "O">>)
    THEN LET vfo == Arg0Upper(arg_list) IN
         IF vfo = <<>> THEN ft817_get_vfo(c)
         ELSE { Ret(x.c, IF x.v THEN OK ELSE ERROR) : x \in ft817_set_vfo(c, vfo) }
  ELSE IF cmd = Str(<<"R", "P", "T", "-", "O", "F", "F", "S", "E", "T">>) THEN ft817_rpt_offset_cmd(c, Arg0Upper(arg_list))
  ELSE IF cmd = Str(<<"T", "O", "N", "E">>)
    THEN ft817_tone_cmd(c, Arg0Upper(arg_list), Arg1Upper(arg_list))
  ELSE IF cmd = Str(<<"E", "E", "P", "R", "O", "M", "-", "R", "E", "A", "D">>)
    THEN { Ret(x.c, x.v.resp \o Str(<<" ">>) \o Hex2(x.v.d1) \o Str(<<" ">>) \o Hex2(x.v.d2))
           : x \in ft817_eeprom_read_cmd(c, Arg0Upper(arg_list)) }
  ELSE { Ret(c, NOTFOUND) }

(***************************************************************************)
(* PyRigCat_icom: the framed-binary (CI-V) codec.  PyRigCat_ic7000 only    *)
(* sets the address and forwards.                                          *)
(***************************************************************************)

(* OperatingMode.MODE_LIST and OperatingMode.UNKNOWN *)
MODE_LIST ==
  {Str(<<"L", "S", "B">>),
   Str(<<"U", "S", "B">>),
   Str(<<"C", "W">>),
   Str(<<"C", "W", "-", "R">>),
   Str(<<"A", "M">>),
   Str(<<"A", "M", "-", "N">>),
   Str(<<"F", "M">>),
   Str(<<"F", "M", "-", "N">>),
   Str(<<"F", "M", "-", "W">>),
   Str(<<"C", "4", "F", "M">>),
   Str(<<"R", "T", "T", "Y">>),
   Str(<<"R", "T", "T", "Y", "-", "R">>),
   Str(<<"D", "I", "G", "I">>),
   Str(<<"P", "K", "T">>),
   Str(<<"D", "A", "T", "A">>),
   Str(<<"D", "A", "T", "A", "-", "U", "S", "B">>),
   Str(<<"D", "A", "T", "A", "-", "L", "S", "B">>),
   Str(<<"D", "A", "T", "A", "-", "F", "M">>)}

(* PyRigCat_icom.get_vfo: the shadow. *)
icom_get_vfo(c) == c.vfo

(* A shadow that takes the target whether or not the transaction succeeded. *)
icom_vfo_shadow_always(old, vfo, ok) == IF vfo = VfoA THEN VfoA ELSE VfoB

(* The shadow after set_vfo's transaction. *)
icom_vfo_shadow(old, vfo, ok) == IF ok THEN (IF vfo = VfoA THEN VfoA ELSE VfoB) ELSE old

(* PyRigCat_icom.set_vfo; the value is ok. *)
icom_set_vfo(c, vfo) ==
  LET Done(cc, ok) == Ret([cc EXCEPT !.calls = Append(@, Call("set_vfo", vfo, 0, ok,
                                                              Len(c.tlog), Len(cc.tlog)))], ok)
  IN IF vfo # VfoA /\ vfo # VfoB THEN { Done(c, FALSE) }
     ELSE { Done([x.c EXCEPT !.vfo = icom_vfo_shadow(@, vfo, x.v.status)], x.v.status)
            : x \in icom_xcvr_cmd(c, 7, <<IF vfo = VfoA THEN 0 ELSE 1>>, <<>>, <<>>, 0) }

(* PyRigCat_icom.get_split: the shadow. *)
icom_get_split(c) == c.split

(* PyRigCat_icom.set_split *)
icom_set_split(c, split) ==
  { Ret(x.c, IF x.v.status THEN OK ELSE ERROR)
    : x \in icom_xcvr_cmd(c, 15, <<IF split THEN 1 ELSE 0>>, <<>>, <<>>, 0) }

(* The value of BCD bytes sent least significant first. *)
RECURSIVE BcdLsbFirst(_)
BcdLsbFirst(data) ==
  IF data = <<>> THEN 0
  ELSE (data[1] % 16) + 10 * (data[1] \div 16) + 100 * BcdLsbFirst(Tail(data))

(* PyRigCat_icom.get_frequency_hz *)
icom_get_frequency_hz(c) ==
  { Ret(x.c, IF x.v.status THEN BcdLsbFirst(x.v.resp) ELSE 0)
    : x \in icom_xcvr_cmd(c, 3, <<>>, <<>>, <<>>, 5) }

(* Five BCD bytes with the most significant digit pair first. *)
icom_freq_bcd_msb_first(freq) ==
  [i \in 1..5 |-> DigitAt(freq, 11 - 2 * i) * 16 + DigitAt(freq, 10 - 2 * i)]

(* The five bytes set_frequency_hz makes of freq: ten digits, two to a byte,
   reversed so that the least significant pair comes first. *)
icom_freq_bcd(freq) ==
  [i \in 1..5 |-> DigitAt(freq, 2 * i - 1) * 16 + DigitAt(freq, 2 * i - 2)]

(* PyRigCat_icom.set_frequency_hz *)
icom_set_frequency_hz(c, freq) ==
  IF ~FreqInRange(freq) THEN { Ret(c, FALSE) }
  ELSE LET data == icom_freq_bcd(freq)
       IN { Ret(x.c, x.v.status) : x \in icom_xcvr_cmd(c, 5, <<>>, <<>>, data, 0) }

(* PyRigCat_icom.frequency_cmd *)
icom_frequency_cmd(c, freq_hz_str, vfo) ==
  IF Len(freq_hz_str) > 0 /\ ~IsNumeric(freq_hz_str) THEN { Ret(c, ERROR) }
  ELSE
    LET freq_hz == IF Len(freq_hz_str) > 0 THEN ToInt(freq_hz_str) ELSE 0
        saved_vfo == icom_get_vfo(c)
        switch == IF vfo = VfoA /\ saved_vfo = VfoB THEN icom_set_vfo(c, VfoA)
                  ELSE IF vfo = VfoB /\ saved_vfo = VfoA THEN icom_set_vfo(c, VfoB)
                  ELSE { Ret(c, TRUE) }
        body(cc, vfo_ok) ==
          IF ~vfo_ok THEN { Ret(cc, ERROR) }
          ELSE IF freq_hz > 0
            THEN { Ret(x.c, IF x.v THEN OK ELSE ERROR) : x \in icom_set_frequency_hz(cc, freq_hz) }
            ELSE { Ret(x.c, IF x.v > 0 THEN ZFill(IntToStr(x.v), 9) ELSE ERROR)
                   : x \in icom_get_frequency_hz(cc) }
        restore(b, vfo_ok) ==
          IF vfo_ok /\ Len(vfo) > 0 /\ vfo # saved_vfo
            THEN { Ret(x.c, b.v) : x \in icom_set_vfo(b.c, saved_vfo) }
            ELSE { b }
    IN UNION { UNION { restore(b, s.v) : b \in body(s.c, s.v) } : s \in switch }

(* The mode PyRigCat_icom.get_mode names for the mode byte of the reply. *)
icom_mode_name(mode_val) ==
  IF mode_val = 0 THEN Str(<<"L", "S", "B">>)
  ELSE IF mode_val = 1 THEN Str(<<"U", "S", "B">>)
  ELSE IF mode_val = 2 THEN Str(<<"A", "M">>)
  ELSE IF mode_val = 3 THEN Str(<<"C", "W">>)
  ELSE IF mode_val = 4 THEN Str(<<"R", "T", "T", "Y">>)
  ELSE IF mode_val = 5 THEN Str(<<"F", "M">>)
  ELSE IF mode_val = 7 THEN Str(<<"C", "W", "-", "R">>)
  ELSE IF mode_val = 8 THEN Str(<<"R", "T", "T", "Y", "-", "R">>)
  ELSE UNKNOWN

(* PyRigCat_icom.get_mode *)
icom_get_mode(c) ==
  { Ret(x.c, IF ~x.v.status THEN UNKNOWN ELSE icom_mode_name(x.v.resp[1]))
    : x \in icom_xcvr_cmd(c, 4, <<>>, <<>>, <<>>, 2) }

(* The subcommand set_mode sends for a mode, -1 when it sends nothing. *)
icom_mode_scmd(has_data_modes, mode) ==
  IF mode = Str(<<"L", "S", "B">>) THEN 0
  ELSE IF mode = Str(<<"U", "S", "B">>) THEN 1
  ELSE IF mode = Str(<<"A", "M">>) THEN 2
  ELSE IF mode = Str(<<"C", "W">>) THEN 3
  ELSE IF mode = Str(<<"R", "T", "T", "Y">>) THEN 4
  ELSE IF mode = Str(<<"F", "M">>) THEN 5
  ELSE IF mode = Str(<<"C", "W", "-", "R">>) THEN 7
  ELSE IF mode = Str(<<"R", "T", "T", "Y", "-", "R">>) THEN 8
  ELSE IF mode = Str(<<"D", "A", "T", "A", "-", "L", "S", "B">>) /\ ~has_data_modes THEN 0
  ELSE IF mode = Str(<<"D", "A", "T", "A", "-", "U", "S", "B">>) /\ ~has_data_modes THEN 1
  ELSE IF mode = Str(<<"D", "A", "T", "A", "-", "F", "M">>) /\ ~has_data_modes THEN 5
  ELSE -1

(* PyRigCat_icom.set_mode *)
icom_set_mode(c, mode) ==
  LET scmd == icom_mode_scmd(c.has_data_modes, mode) IN
  IF scmd < 0 THEN { Ret(c, FALSE) }
  ELSE { Ret(x.c, x.v.status) : x \in icom_xcvr_cmd(c, 6, <<scmd>>, <<>>, <<>>, 0) }

(* PyRigCat_icom.mode_cmd *)
icom_mode_cmd(c, mode_str, vfo) ==
  IF Len(mode_str) > 0 /\ Upper(mode_str) \notin MODE_LIST THEN { Ret(c, ERROR) }
  ELSE IF Len(vfo) > 0 /\ vfo # VfoA /\ vfo # VfoB THEN { Ret(c, ERROR) }
  ELSE
    LET saved_vfo == IF Len(vfo) > 0 THEN c.vfo ELSE <<>>
        switch == IF Len(vfo) > 0 THEN icom_set_vfo(c, vfo) ELSE { Ret(c, TRUE) }
        body(cc) ==
          IF Len(mode_str) > 0
            THEN { Ret(x.c, IF x.v THEN OK ELSE ERROR) : x \in icom_set_mode(cc, mode_str) }
            ELSE { Ret(x.c, IF x.v # UNKNOWN THEN x.v ELSE ERROR) : x \in icom_get_mode(cc) }
        restore(b) ==
          IF Len(saved_vfo) > 0
            THEN { Ret(x.c, IF x.v THEN b.v ELSE ERROR) : x \in icom_set_vfo(b.c, saved_vfo) }
            ELSE { b }
    IN UNION { IF ~s.v THEN { Ret(s.c, ERROR) }
               ELSE UNION { restore(b) : b \in body(s.c) }
               : s \in switch }

(* int(round(n / d)) for n >= 0, d > 0: Python rounds a half to even. *)
RoundHalfEven(n, d) ==
  LET q == n \div d
      r == n % d
  IN IF 2 * r < d THEN q
     ELSE IF 2 * r > d THEN q + 1
     ELSE IF q % 2 = 0 THEN q ELSE q + 1

(* A maxbyte_to_pct that cuts the fraction off. *)
icom_maxbyte_to_pct_floor(val) == (100 * val) \div 255

(* A pct_to_maxbyte that divides before it multiplies. *)
icom_pct_to_maxbyte_div_first(pct) == (pct \div 100) * 255

(* PyRigCat_icom.maxbyte_to_pct and pct_to_maxbyte *)
icom_maxbyte_to_pct(val) == RoundHalfEven(100 * val, 255)
icom_pct_to_maxbyte(pct) == RoundHalfEven(pct * 255, 100)

(* int(math.log10(max_val)) for max_val >= 1; exact for the values below
   2^31 that are used here. *)
RECURSIVE Log10Int(_)
Log10Int(n) == IF n < 10 THEN 0 ELSE 1 + Log10Int(n \div 10)

RECURSIVE Pow10(_)
Pow10(p) == IF p = 0 THEN 1 ELSE 10 * Pow10(p - 1)

(* The loop of PyRigCat.int_to_bcd: n more digits of val, the next one of
   weight div. *)
RECURSIVE bcd_loop(_, _, _)
bcd_loop(val, div, n) ==
  IF n = 0 THEN <<>>
  ELSE LET d == val \div div
       IN <<d>> \o bcd_loop(val - d * div, div \div 10, n - 1)

(* A BCD conversion with one digit less than max_val has. *)
int_to_bcd_narrow(val, max_val) ==
  LET p == Log10Int(max_val)
  IN bcd_loop(val, Pow10(p), p)

(* PyRigCat.int_to_bcd: val is int(abs(val)) already. *)
int_to_bcd(val, max_val) ==
  LET p == Log10Int(max_val)
  IN bcd_loop(val, Pow10(p), p + 1)

(* The level in three BCD digits spread over two bytes. *)
BcdLevel(hi, lo) == (hi % 16) * 100 + (lo \div 16) * 10 + (lo % 16)

(* The two level bytes set_power_level and set_monitor_level put in the
   frame: the three BCD digits of pct_to_maxbyte(level_pct). *)
icom_level_bytes(level_pct) ==
  LET digits == int_to_bcd(icom_pct_to_maxbyte(level_pct), 255)
  IN <<digits[1], digits[2] * 16 + digits[3]>>

(* The percentage get_power_level and get_monitor_level make of the two
   level bytes of the reply. *)
icom_level_of(hi, lo) == icom_maxbyte_to_pct(BcdLevel(hi, lo))

(* The level byte of set_speech_level: int(level_pct / 10), 0x10 for ten. *)
icom_speech_byte(level_pct) == IF level_pct \div 10 >= 10 THEN 16 ELSE level_pct \div 10

(* The percentage get_speech_level makes of the level byte of the reply. *)
icom_speech_level_of(b) == IF b >= 16 THEN 100 ELSE b * 10

(* PyRigCat_icom.get_power_level: 0 when the transaction failed. *)
icom_get_power_level(c) ==
  { Ret(x.c, IF x.v.status
               THEN icom_level_of(x.v.resp[2], x.v.resp[3])
               ELSE 0)
    : x \in icom_xcvr_cmd(c, 20, <<10>>, <<>>, <<>>, 3) }

(* PyRigCat_icom.set_power_level *)
icom_set_power_level(c, level_pct) ==
  LET scmd_list == <<10>> \o icom_level_bytes(level_pct)
  IN { Ret(x.c, x.v.status) : x \in icom_xcvr_cmd(c, 20, <<>>, scmd_list, <<>>, 0) }

(* PyRigCat_icom.power_level_cmd *)
icom_power_level_cmd(c, level_str) ==
  IF Len(level_str) > 0
    THEN IF IsNumeric(level_str) /\ ToInt(level_str) <= 100
           THEN { Ret(x.c, IF x.v THEN OK ELSE ERROR)
                  : x \in icom_set_power_level(c, ToInt(level_str)) }
           ELSE { Ret(c, ERROR) }
    ELSE { Ret(x.c, IntToStr(x.v)) : x \in icom_get_power_level(c) }

(* PyRigCat_icom.get_monitor_onoff *)
icom_get_monitor_onoff(c) ==
  { Ret(x.c, IF x.v.status /\ x.v.resp[4] = 0 THEN OFF
             ELSE IF x.v.status /\ x.v.resp[4] = 1 THEN ON
             ELSE ERROR)
    : x \in icom_xcvr_cmd(c, 26, <<>>, <<5, 0, 69>>, <<>>, 4) }

(* PyRigCat_icom.set_monitor_onoff *)
icom_set_monitor_onoff(c, onoff) ==
  IF onoff # OFF /\ onoff # ON THEN { Ret(c, FALSE) }
  ELSE { Ret(x.c, x.v.status)
         : x \in icom_xcvr_cmd(c, 26, <<>>, <<5, 0, 69, (IF onoff = ON THEN 1 ELSE 0)>>, <<>>, 0) }

(* PyRigCat_icom.get_monitor_level: the text of the level, '0' when the
   transaction failed. *)
icom_get_monitor_level(c) ==
  { Ret(x.c, IntToStr(IF x.v.status
                        THEN icom_level_of(x.v.resp[4], x.v.resp[5])
                        ELSE 0))
    : x \in icom_xcvr_cmd(c, 26, <<>>, <<5, 0, 70>>, <<>>, 5) }

(* PyRigCat_icom.set_monitor_level *)
icom_set_monitor_level(c, level_pct) ==
  LET scmd_list == <<5, 0, 70>> \o icom_level_bytes(level_pct)
  IN { Ret(x.c, x.v.status) : x \in icom_xcvr_cmd(c, 26, <<>>, scmd_list, <<>>, 0) }

(* PyRigCat_icom.get_speech_onoff *)
icom_get_speech_onoff(c) ==
  { Ret(x.c, IF x.v.status /\ x.v.resp[2] = 0 THEN OFF
             ELSE IF x.v.status /\ x.v.resp[2] = 1 THEN ON
             ELSE ERROR)
    : x \in icom_xcvr_cmd(c, 22, <<68>>, <<>>, <<>>, 2) }

(* PyRigCat_icom.set_speech_onoff *)
icom_set_speech_onoff(c, onoff) ==
  IF onoff # OFF /\ onoff # ON THEN { Ret(c, FALSE) }
  ELSE { Ret(x.c, x.v.status)
         : x \in icom_xcvr_cmd(c, 22, <<68>>, <<>>, <<(IF onoff = ON THEN 1 ELSE 0)>>, 0) }

(* PyRigCat_icom.get_speech_level: the text of the level, '0' when the
   transaction failed. *)
icom_get_speech_level(c) ==
  { Ret(x.c, IntToStr(IF x.v.status
                        THEN icom_speech_level_of(x.v.resp[4])
                        ELSE 0))
    : x \in icom_xcvr_cmd(c, 26, <<>>, <<5, 0, 148>>, <<>>, 4) }

(* PyRigCat_icom.set_speech_level *)
icom_set_speech_level(c, level_pct) ==
  { Ret(x.c, x.v.status)
    : x \in icom_xcvr_cmd(c, 26, <<>>, <<5, 0, 148, icom_speech_byte(level_pct)>>, <<>>, 0) }

(* The common body of monitor_level_cmd (monitor = TRUE) and
   speech_processor_cmd: the two getters or setters of the feature and the
   text 'onoff:level'. *)
icom_onoff_level_cmd(c, onoff, level_str, monitor) ==
  LET get_onoff(cc) == IF monitor THEN icom_get_monitor_onoff(cc) ELSE icom_get_speech_onoff(cc)
      get_level(cc) == IF monitor THEN icom_get_monitor_level(cc) ELSE icom_get_speech_level(cc)
      set_onoff(cc, v) == IF monitor THEN icom_set_monitor_onoff(cc, v)
                          ELSE icom_set_speech_onoff(cc, v)
      set_level(cc, v) == IF monitor THEN icom_set_monitor_level(cc, v)
                          ELSE icom_set_speech_level(cc, v)
      level_pct == IF Len(level_str) > 0 /\ IsNumeric(level_str) THEN ToInt(level_str) ELSE 0
      Pair(a, b) == a \o Str(<<":">>) \o b
  IN IF level_pct > 100 THEN { Ret(c, ERROR) }
     ELSE IF onoff = <<>>
       THEN UNION { { Ret(l.c, Pair(o.v, l.v)) : l \in get_level(o.c) } : o \in get_onoff(c) }
     ELSE IF onoff = OFF
       THEN { Ret(o.c, IF o.v THEN Pair(OK, OK) ELSE Pair(ERROR, ERROR)) : o \in set_onoff(c, onoff) }
     ELSE IF onoff = ON
       THEN UNION { IF o.v
                      THEN { Ret(l.c, Pair(OK, IF l.v THEN OK ELSE ERROR))
                             : l \in set_level(o.c, level_pct) }
                      ELSE { Ret(o.c, Pair(ERROR, ERROR)) }
                    : o \in set_onoff(c, onoff) }
     ELSE { Ret(c, ERROR) }

(* PyRigCat_icom.monitor_level_cmd *)
icom_monitor_level_cmd(c, onoff, level_str) ==
  icom_onoff_level_cmd(c, onoff, level_str, TRUE)

(* PyRigCat_icom.speech_processor_cmd *)
icom_speech_processor_cmd(c, onoff, level_str) ==
  icom_onoff_level_cmd(c, onoff, level_str, FALSE)

(* PyRigCat_icom.tone_mode_cmd: both transactions are made. *)
icom_tone_mode_cmd(c, mode) ==
  IF mode \notin {OFF, Str(<<"E", "N", "C">>), Str(<<"D", "E", "C">>)} THEN { Ret(c, FALSE) }
  ELSE LET tone_enable == IF mode = OFF THEN 0 ELSE 1
           tsql_enable == IF mode = Str(<<"D", "E", "C">>) THEN 1 ELSE 0
       IN UNION { { Ret(q.c, t.v.status /\ q.v.status)
                    : q \in icom_xcvr_cmd(t.c, 22, <<67>>, <<>>, <<tsql_enable>>, 0) }
                  : t \in icom_xcvr_cmd(c, 22, <<66>>, <<>>, <<tone_enable>>, 0) }

(* PyRigCat_icom.tone_freq_cmd *)
icom_tone_freq_cmd(c, type, freq) ==
  IF ~IsSignedInt(freq) THEN { Ret(c, FALSE) }
  ELSE LET ifreq == SignedInt(freq) IN
       IF ~(ifreq >= 670 /\ ifreq <= 2541) THEN { Ret(c, FALSE) }
       ELSE LET digits == int_to_bcd(ifreq, 2541)
                tone_data == <<0, digits[1] * 16 + digits[2], digits[3] * 16 + digits[4]>>
            IN { Ret(x.c, x.v.status) : x \in icom_xcvr_cmd(c, 27, <<type>>, <<>>, tone_data, 0) }

(* PyRigCat_icom.tone_cmd: DEC sets the transmit tone and the receive tone,
   the second whatever the first gave. *)
icom_tone_cmd(c, mode, freq) ==
  IF mode \notin {OFF, Str(<<"E", "N", "C">>), Str(<<"D", "E", "C">>)} THEN { Ret(c, ERROR) }
  ELSE IF mode # OFF /\ ~IsNumeric(freq) THEN { Ret(c, ERROR) }
  ELSE UNION {
         IF m.v /\ mode = Str(<<"E", "N", "C">>)
           THEN { Ret(e.c, IF e.v THEN OK ELSE ERROR) : e \in icom_tone_freq_cmd(m.c, 0, freq) }
         ELSE IF m.v /\ mode = Str(<<"D", "E", "C">>)
           THEN UNION { { Ret(d.c, IF e.v /\ d.v THEN OK ELSE ERROR)
                          : d \in icom_tone_freq_cmd(e.c, 1, freq) }
                        : e \in icom_tone_freq_cmd(m.c, 0, freq) }
         ELSE { Ret(m.c, IF m.v THEN OK ELSE ERROR) }
         : m \in icom_tone_mode_cmd(c, mode) }

(* The vendor command names of PyRigCat_icom.ascii_cmd that are modelled. *)
IcomNames == {Str(<<"T", "O", "N", "E">>), Str(<<"P", "O", "W", "E", "R">>), Str(<<"M", "O", "N", "I", "T", "O", "R">>), Str(<<"S", "P", "E", "E", "C", "H">>), Str(<<"F", "R", "E", "Q">>), Str(<<"F", "R", "E", "Q", "A">>), Str(<<"F", "R", "E", "Q", "B">>), Str(<<"M", "O", "D", "E">>), Str(<<"M", "O", "D", "E", "A">>), Str(<<"M", "O", "D", "E", "B">>), Str(<<"S", "P", "L", "I", "T">>), Str(<<"V", "F", "O">>)}

(* PyRigCat_icom.ascii_cmd after the generic router returned NOTFOUND. *)
icom_vendor_cmd(c, cmd, arg_list) ==
  IF cmd = Str(<<"F", "R", "E", "Q">>) THEN icom_frequency_cmd(c, Arg0(arg_list), <<>>)
  ELSE IF cmd = Str(<<"F", "R", "E", "Q", "A">>) THEN icom_frequency_cmd(c, Arg0(arg_list), VfoA)
  ELSE IF cmd = Str(<<"F", "R", "E", "Q", "B">>) THEN icom_frequency_cmd(c, Arg0(arg_list), VfoB)
  ELSE IF cmd = Str(<<"M", "O", "D", "E">>) THEN icom_mode_cmd(c, Arg0Upper(arg_list), <<>>)
  ELSE IF cmd = Str(<<"M", "O", "D", "E", "A">>) THEN icom_mode_cmd(c, Arg0Upper(arg_list), VfoA)
  ELSE IF cmd = Str(<<"M", "O", "D", "E", "B">>) THEN icom_mode_cmd(c, Arg0Upper(arg_list), VfoB)
  ELSE IF cmd = Str(<<"S", "P", "L", "I", "T">>)
    THEN LET split_onoff == Arg0Upper(arg_list) IN
         IF Len(split_onoff) > 0
           THEN IF split_onoff = OFF THEN icom_set_split(c, FALSE)
                ELSE IF split_onoff = ON THEN icom_set_split(c, TRUE)
                ELSE { Ret(c, ERROR) }
           ELSE { Ret(c, icom_get_split(c)) }
  ELSE IF cmd = Str(<<"V", "F", "O">>)
    THEN LET vfo == Arg0Upper(arg_list) IN
         IF vfo = <<>> THEN { Ret(c, icom_get_vfo(c)) }
         ELSE { Ret(x.c, IF x.v THEN OK ELSE ERROR) : x \in icom_set_vfo(c, vfo) }
  ELSE IF cmd = Str(<<"M", "O", "N", "I", "T", "O", "R">>)
    THEN icom_monitor_level_cmd(c, Arg0Upper(arg_list), Arg1Upper(arg_list))
  ELSE IF cmd = Str(<<"P", "O", "W", "E", "R">>) THEN icom_power_level_cmd(c, Arg0(arg_list))
  ELSE IF cmd = Str(<<"T", "O", "N", "E">>)
    THEN icom_tone_cmd(c, Arg0Upper(arg_list), Arg1Upper(arg_list))
  ELSE IF cmd = Str(<<"S", "P", "E", "E", "C", "H">>)
    THEN icom_speech_processor_cmd(c, Arg0Upper(arg_list), Arg1Upper(arg_list))
  ELSE { Ret(c, NOTFOUND) }

(***************************************************************************)
(* PyRigCat_ft991: the ASCII codec.                                        *)
(***************************************************************************)

(* The common tail of the FT-991 handlers: '' is OK, '?;' is ERROR. *)
ft991_ok_or_error(resp) ==
  IF resp = <<>> THEN OK
  ELSE IF resp = Str(<<"?", ";">>) THEN ERROR
  ELSE resp

(* A frequency_cmd that addresses VFO-A whatever the VFO asked for. *)
ft991_frequency_cmd_a(c, freq_hz, vfo) ==
  LET cmd == Str(<<"F", "A">>) \o (IF Len(freq_hz) > 0 THEN ZFill(freq_hz, 9) ELSE <<>>) \o Str(<<";">>)
  IN { Ret(x.c, IF x.v = <<>> \/ x.v = Str(<<"?", ";">>) THEN ft991_ok_or_error(x.v)
                ELSE IF StartsWith(x.v, Str(<<"F", "A">>)) \/ StartsWith(x.v, Str(<<"F", "B">>))
                  THEN Slice(x.v, 2, 11)
                ELSE x.v)
       : x \in ft991_xcvr_cmd(c, cmd, 12) }

(* PyRigCat_ft991.frequency_cmd *)
ft991_frequency_cmd(c, freq_hz, vfo) ==
  LET cmd == (IF vfo = VfoB THEN Str(<<"F", "B">>) ELSE Str(<<"F", "A">>))
             \o (IF Len(freq_hz) > 0 THEN ZFill(freq_hz, 9) ELSE <<>>)
             \o Str(<<";">>)
  IN { Ret(x.c, IF x.v = <<>> \/ x.v = Str(<<"?", ";">>) THEN ft991_ok_or_error(x.v)
                ELSE IF StartsWith(x.v, Str(<<"F", "A">>)) \/ StartsWith(x.v, Str(<<"F", "B">>))
                  THEN Slice(x.v, 2, 11)
                ELSE x.v)
       : x \in ft991_xcvr_cmd(c, cmd, 12) }

(* PyRigCat_ft991.monitor_level_cmd (monitor = TRUE: ML0 and ML1) and
   PyRigCat_ft991.speech_processor_cmd (monitor = FALSE: PR0 and PL), which
   differ in the mnemonics only. *)
ft991_onoff_level_cmd(c, onoff, level_str, monitor) ==
  LET q_onoff == IF monitor THEN Str(<<"M", "L", "0", ";">>) ELSE Str(<<"P", "R", "0", ";">>)
      n_onoff == IF monitor THEN 7 ELSE 5
      off_txt == IF monitor THEN Str(<<"M", "L", "0", "0", "0", "0", ";">>) ELSE Str(<<"P", "R", "0", "0", ";">>)
      on_txt == IF monitor THEN Str(<<"M", "L", "0", "0", "0", "1", ";">>) ELSE Str(<<"P", "R", "0", "1", ";">>)
      lvl_pfx == IF monitor THEN Str(<<"M", "L", "1">>) ELSE Str(<<"P", "L">>)
      n_level == IF monitor THEN 7 ELSE 6
      bad_level == Len(level_str) > 0 /\ (~IsNumeric(level_str) \/ ToInt(level_str) > 100)
      level3 == IF Len(level_str) > 0 THEN ZFill(IntToStr(ToInt(level_str)), 3) ELSE <<>>
      GetOnOff(v) == IF v = off_txt THEN OFF
                     ELSE IF v = on_txt THEN ON
                     ELSE IF v = Str(<<"?", ";">>) THEN ERROR
                     ELSE v
      GetLevel(v) == IF StartsWith(v, lvl_pfx) THEN Slice(v, Len(lvl_pfx), Len(lvl_pfx) + 3)
                     ELSE IF v = Str(<<"?", ";">>) THEN ERROR
                     ELSE v
      Finish(cc, resp_onoff, resp_level) ==
        IF resp_onoff = ERROR \/ resp_level = ERROR THEN { Ret(cc, ERROR) }
        ELSE IF Len(level_str) > 0
          THEN { Ret(z.c, resp_onoff \o Str(<<":">>) \o ft991_ok_or_error(z.v))
                 : z \in ft991_xcvr_cmd(cc, lvl_pfx \o level3 \o Str(<<";">>), 2) }
        ELSE { Ret(cc, resp_onoff \o Str(<<":">>) \o resp_level) }
  IN IF bad_level THEN { Ret(c, ERROR) }
     ELSE IF onoff = <<>>
       THEN UNION { UNION { Finish(y.c, GetOnOff(x.v), GetLevel(y.v))
                            : y \in ft991_xcvr_cmd(x.c, lvl_pfx \o Str(<<";">>), n_level) }
                    : x \in ft991_xcvr_cmd(c, q_onoff, n_onoff) }
     ELSE IF onoff = OFF
       THEN UNION { Finish(x.c, ft991_ok_or_error(x.v), <<>>) : x \in ft991_xcvr_cmd(c, off_txt, 2) }
     ELSE IF onoff = ON
       THEN UNION { Finish(x.c, ft991_ok_or_error(x.v), <<>>) : x \in ft991_xcvr_cmd(c, on_txt, 2) }
     ELSE { Ret(c, ERROR) }

(* PyRigCat_ft991.monitor_level_cmd *)
ft991_monitor_level_cmd(c, onoff, level_str) == ft991_onoff_level_cmd(c, onoff, level_str, TRUE)

(* PyRigCat_ft991.speech_processor_cmd *)
ft991_speech_processor_cmd(c, onoff, level_str) == ft991_onoff_level_cmd(c, onoff, level_str, FALSE)

(* PyRigCat_ft991.split_cmd *)
ft991_split_cmd(c, split_onoff) ==
  LET tail(x) == Ret(x.c, IF x.v = Str(<<"F", "T", "0", ";">>) THEN OFF
                          ELSE IF x.v = Str(<<"F", "T", "1", ";">>) THEN ON
                          ELSE ft991_ok_or_error(x.v))
  IN IF Len(split_onoff) > 0
       THEN IF split_onoff = OFF
              THEN { tail(x) : x \in ft991_xcvr_cmd(c, Str(<<"F", "T", "2", ";">>), 2) }
            ELSE IF split_onoff = ON
              THEN { tail(x) : x \in ft991_xcvr_cmd(c, Str(<<"F", "T", "3", ";">>), 2) }
            ELSE { Ret(c, ERROR) }
       ELSE { tail(x) : x \in ft991_xcvr_cmd(c, Str(<<"F", "T", ";">>), 4) }

(* PyRigCat_ft991.swapvfo_cmd *)
ft991_swapvfo_cmd(c) ==
  { Ret(x.c, ft991_ok_or_error(x.v)) : x \in ft991_xcvr_cmd(c, Str(<<"S", "V", ";">>), 2) }

(* CTCSS_TONES: the tone frequency in Hz * 10 and its three-digit code. *)
CTCSS_TONES ==
  <<
    <<670, 0>>, <<693, 1>>, <<719, 3>>, <<744, 4>>, <<770, 5>>,
    <<825, 6>>, <<854, 7>>, <<885, 8>>, <<915, 9>>, <<948, 10>>,
    <<974, 11>>, <<1000, 12>>, <<1035, 13>>, <<1072, 14>>, <<1109, 15>>,
    <<1148, 16>>, <<1188, 17>>, <<1230, 18>>, <<1273, 19>>, <<1318, 20>>,
    <<1365, 21>>, <<1413, 22>>, <<1462, 23>>, <<1514, 24>>, <<1567, 25>>,
    <<1598, 26>>, <<1622, 27>>, <<1655, 28>>, <<1679, 29>>, <<1713, 30>>,
    <<1738, 31>>, <<1773, 32>>, <<1799, 33>>, <<1835, 34>>, <<1862, 35>>,
    <<1899, 36>>, <<1928, 37>>, <<1966, 38>>, <<1995, 39>>, <<2035, 40>>,
    <<2065, 41>>, <<2107, 42>>, <<2181, 43>>, <<2257, 44>>, <<2291, 45>>,
    <<2336, 46>>, <<2418, 47>>, <<2503, 48>>, <<2541, 49>>
  >>

(* freq in CTCSS_TONES.keys(): the keys are the decimal texts. *)
IsCtcssKey(freq) == \E i \in 1..Len(CTCSS_TONES) : IntToStr(CTCSS_TONES[i][1]) = freq

(* CTCSS_TONES[freq] *)
CtcssCode(freq) ==
  LET i == CHOOSE j \in 1..Len(CTCSS_TONES) : IntToStr(CTCSS_TONES[j][1]) = freq
  IN ZFill(IntToStr(CTCSS_TONES[i][2]), 3)

(* PyRigCat_ft991.tone_mode_cmd *)
ft991_tone_mode_cmd(c, mode) ==
  IF mode \notin {OFF, Str(<<"E", "N", "C">>), Str(<<"D", "E", "C">>)} THEN { Ret(c, ERROR) }
  ELSE LET cmd == Str(<<"C", "T", "0">>) \o (IF mode = OFF THEN Str(<<"0", ";">>) ELSE IF mode = Str(<<"E", "N", "C">>) THEN Str(<<"2", ";">>) ELSE Str(<<"1", ";">>))
       IN { Ret(x.c, ft991_ok_or_error(x.v)) : x \in ft991_xcvr_cmd(c, cmd, 2) }

(* PyRigCat_ft991.tone_freq_cmd: for a frequency that is not a key the
   method evaluates pyRigCat.ERROR, a name the module does not define. *)
ft991_tone_freq_cmd(c, freq) ==
  IF ~IsCtcssKey(freq) THEN { Ret(c, RaiseV(Str(<<"N", "a", "m", "e", "E", "r", "r", "o", "r">>))) }
  ELSE { Ret(x.c, StrV(ft991_ok_or_error(x.v)))
         : x \in ft991_xcvr_cmd(c, Str(<<"C", "N", "0", "0">>) \o CtcssCode(freq) \o Str(<<";">>), 2) }

(* PyRigCat_ft991.tone_cmd *)
ft991_tone_cmd(c, mode, freq) ==
  IF mode \notin {OFF, Str(<<"E", "N", "C">>), Str(<<"D", "E", "C">>)} THEN { Ret(c, StrV(ERROR)) }
  ELSE IF mode # OFF /\ ~IsNumeric(freq) THEN { Ret(c, StrV(ERROR)) }
  ELSE UNION { IF m.v = OK /\ mode # OFF
                 THEN ft991_tone_freq_cmd(m.c, freq)
                 ELSE { Ret(m.c, StrV(m.v)) }
               : m \in ft991_tone_mode_cmd(c, mode) }

(* The mode digit op_mode_cmd sends for a mode name, 'X' for any other
   text. *)
ft991_mode_num(mode_str) ==
  IF mode_str = Str(<<"L", "S", "B">>) THEN Str(<<"1">>)
  ELSE IF mode_str = Str(<<"U", "S", "B">>) THEN Str(<<"2">>)
  ELSE IF mode_str = Str(<<"C", "W">>) THEN Str(<<"3">>)
  ELSE IF mode_str = Str(<<"F", "M">>) THEN Str(<<"4">>)
  ELSE IF mode_str = Str(<<"A", "M">>) THEN Str(<<"5">>)
  ELSE IF mode_str = Str(<<"R", "T", "T", "Y">>) THEN Str(<<"6">>)
  ELSE IF mode_str = Str(<<"C", "W", "-", "R">>) THEN Str(<<"7">>)
  ELSE IF mode_str = Str(<<"D", "A", "T", "A", "-", "L", "S", "B">>) THEN Str(<<"8">>)
  ELSE IF mode_str = Str(<<"R", "T", "T", "Y", "-", "R">>) THEN Str(<<"9">>)
  ELSE IF mode_str = Str(<<"D", "A", "T", "A", "-", "F", "M">>) THEN Str(<<"A">>)
  ELSE IF mode_str = Str(<<"F", "M", "-", "N">>) THEN Str(<<"B">>)
  ELSE IF mode_str = Str(<<"D", "A", "T", "A", "-", "U", "S", "B">>) THEN Str(<<"C">>)
  ELSE IF mode_str = Str(<<"A", "M", "-", "N">>) THEN Str(<<"D">>)
  ELSE IF mode_str = Str(<<"C", "4", "F", "M">>) THEN Str(<<"E">>)
  ELSE Str(<<"X">>)

(* The mode name op_mode_cmd returns for the digit of a reply, <<>> for a
   digit it does not know. *)
ft991_mode_name(mode_num) ==
  IF mode_num = Str(<<"1">>) THEN Str(<<"L", "S", "B">>)
  ELSE IF mode_num = Str(<<"2">>) THEN Str(<<"U", "S", "B">>)
  ELSE IF mode_num = Str(<<"3">>) THEN Str(<<"C", "W">>)
  ELSE IF mode_num = Str(<<"4">>) THEN Str(<<"F", "M">>)
  ELSE IF mode_num = Str(<<"5">>) THEN Str(<<"A", "M">>)
  ELSE IF mode_num = Str(<<"6">>) THEN Str(<<"R", "T", "T", "Y">>)
  ELSE IF mode_num = Str(<<"7">>) THEN Str(<<"C", "W", "-", "R">>)
  ELSE IF mode_num = Str(<<"8">>) THEN Str(<<"D", "A", "T", "A", "-", "L", "S", "B">>)
  ELSE IF mode_num = Str(<<"9">>) THEN Str(<<"R", "T", "T", "Y", "-", "R">>)
  ELSE IF mode_num = Str(<<"A">>) THEN Str(<<"D", "A", "T", "A", "-", "F", "M">>)
  ELSE IF mode_num = Str(<<"B">>) THEN Str(<<"F", "M", "-", "N">>)
  ELSE IF mode_num = Str(<<"C">>) THEN Str(<<"D", "A", "T", "A", "-", "U", "S", "B">>)
  ELSE IF mode_num = Str(<<"D">>) THEN Str(<<"A", "M", "-", "N">>)
  ELSE IF mode_num = Str(<<"E">>) THEN Str(<<"C", "4", "F", "M">>)
  ELSE <<>>

(* What op_mode_cmd makes of the text xcvr_cmd handed back: resp[3] of a
   reply that is just 'MD0' is an IndexError. *)
ft991_op_mode_resp(resp) ==
  IF resp = <<>> \/ resp = Str(<<"?", ";">>) THEN StrV(ft991_ok_or_error(resp))
  ELSE IF ~StartsWith(resp, Str(<<"M", "D", "0">>)) THEN StrV(resp)
  ELSE IF Len(resp) < 4 THEN RaiseV(Str(<<"I", "n", "d", "e", "x", "E", "r", "r", "o", "r">>))
  ELSE IF ft991_mode_name(<<resp[4]>>) # <<>> THEN StrV(ft991_mode_name(<<resp[4]>>))
  ELSE StrV(resp)

(* PyRigCat_ft991.op_mode_cmd *)
ft991_op_mode_cmd(c, mode_str) ==
  LET cmd == Str(<<"M", "D", "0">>) \o (IF Len(mode_str) > 0 THEN ft991_mode_num(mode_str) ELSE <<>>) \o Str(<<";">>)
  IN { Ret(x.c, ft991_op_mode_resp(x.v)) : x \in ft991_xcvr_cmd(c, cmd, 5) }

(* A MODEB that swaps back only after a mode command that went well. *)
ft991_op_modeb_cmd_keep(c, mode_str) ==
  UNION { IF s.v # OK THEN { Ret(s.c, StrV(s.v)) }
          ELSE UNION { IF m.v = StrV(ERROR) \/ m.v.tag = "raise" THEN { m }
                       ELSE { Ret(b.c, m.v) : b \in ft991_swapvfo_cmd(m.c) }
                       : m \in ft991_op_mode_cmd(s.c, mode_str) }
          : s \in ft991_swapvfo_cmd(c) }

(* PyRigCat_ft991.op_modeb_cmd: swap the VFOs, run the mode command on what
   is now VFO-A, swap back. *)
ft991_op_modeb_cmd(c, mode_str) ==
  UNION { IF s.v # OK THEN { Ret(s.c, StrV(s.v)) }
          ELSE UNION { IF m.v.tag = "raise" THEN { m }
                       ELSE { Ret(b.c, m.v) : b \in ft991_swapvfo_cmd(m.c) }
                       : m \in ft991_op_mode_cmd(s.c, mode_str) }
          : s \in ft991_swapvfo_cmd(c) }

(* The vendor command names of PyRigCat_ft991.ascii_cmd that are modelled. *)
Ft991Names == {Str(<<"M", "O", "N", "I", "T", "O", "R">>), Str(<<"S", "P", "E", "E", "C", "H">>), Str(<<"M", "O", "D", "E">>), Str(<<"M", "O", "D", "E", "B">>), Str(<<"T", "O", "N", "E">>), Str(<<"F", "R", "E", "Q">>), Str(<<"F", "R", "E", "Q", "A">>), Str(<<"F", "R", "E", "Q", "B">>), Str(<<"S", "P", "L", "I", "T">>), Str(<<"S", "W", "A", "P", "V", "F", "O">>)}

(* PyRigCat_ft991.ascii_cmd after the generic router returned NOTFOUND; the
   value is a str, or the exception that ended the call. *)
ft991_vendor_cmd(c, cmd, arg_list) ==
  IF cmd = Str(<<"T", "O", "N", "E">>) THEN ft991_tone_cmd(c, Arg0Upper(arg_list), Arg1Upper(arg_list))
  ELSE IF cmd = Str(<<"M", "O", "D", "E">>) THEN ft991_op_mode_cmd(c, Arg0Upper(arg_list))
  ELSE IF cmd = Str(<<"M", "O", "D", "E", "B">>) THEN ft991_op_modeb_cmd(c, Arg0Upper(arg_list))
  ELSE
    { Ret(x.c, StrV(x.v))
      : x \in IF cmd = Str(<<"F", "R", "E", "Q">>) \/ cmd = Str(<<"F", "R", "E", "Q", "A">>)
                THEN ft991_frequency_cmd(c, Arg0(arg_list), VfoA)
              ELSE IF cmd = Str(<<"F", "R", "E", "Q", "B">>) THEN ft991_frequency_cmd(c, Arg0(arg_list), VfoB)
              ELSE IF cmd = Str(<<"S", "P", "L", "I", "T">>) THEN ft991_split_cmd(c, Arg0Upper(arg_list))
              ELSE IF cmd = Str(<<"S", "W", "A", "P", "V", "F", "O">>) THEN ft991_swapvfo_cmd(c)
              ELSE IF cmd = Str(<<"M", "O", "N", "I", "T", "O", "R">>)
                THEN ft991_monitor_level_cmd(c, Arg0Upper(arg_list), Arg1Upper(arg_list))
              ELSE IF cmd = Str(<<"S", "P", "E", "E", "C", "H">>)
                THEN ft991_speech_processor_cmd(c, Arg0Upper(arg_list), Arg1Upper(arg_list))
              ELSE { Ret(c, NOTFOUND) } }

(***************************************************************************)
(* ascii_cmd of the codec's class: the generic router first; the vendor    *)
(* name matching when the router's value equals NOTFOUND.  The context's   *)
(* via field records which of the two produced the value.                  *)
(***************************************************************************)
VendorNames(codec) ==
  IF codec = "FT817" THEN Ft817Names
  ELSE IF codec = "FT991" THEN Ft991Names
  ELSE IF IsIcom(codec) THEN IcomNames
  ELSE {}

vendor_cmd(c, cmd, arg_list) ==
  IF c.codec = "FT991" THEN ft991_vendor_cmd(c, cmd, arg_list)
  ELSE { Ret(x.c, StrV(x.v))
         : x \in IF c.codec = "FT817" THEN ft817_vendor_cmd(c, cmd, arg_list)
                 ELSE icom_vendor_cmd(c, cmd, arg_list) }

ascii_cmd(c, cmd_str, arg_list) ==
  LET cmd == Upper(cmd_str) IN
  IF c.codec = "BASE" THEN PyRigCat_ascii_cmd(c, cmd, arg_list)
  ELSE UNION {
         IF p.v # StrV(NOTFOUND) THEN { p }
         ELSE vendor_cmd([p.c EXCEPT !.via = "vendor"], cmd, arg_list)
         : p \in PyRigCat_ascii_cmd(c, cmd, arg_list) }

(***************************************************************************)
(* The state machine: a codec object, the radio on its line, and one       *)
(* ascii_cmd call at a time.                                               *)
(***************************************************************************)
VARIABLES
  codec,        \* the class of the object
  ptt_method,   \* self._ptt_method
  ptt_is_on,    \* self._ptt_is_on: a bool, or the str the FT-817 stores
  vfo,          \* self._vfo (Icom), '' elsewhere
  split,        \* self._split (Icom), '' elsewhere
  radio,        \* the radio: its VFO in use
  pc,           \* "idle" between calls, "called" on entry to ascii_cmd,
                \* "done" when it has returned
  cmd,          \* the command name of the call
  args,         \* its argument list
  resp,         \* its value
  via,          \* "generic" or "vendor": who produced the value
  tlog,         \* the writes of the call, each with its read
  llog,         \* the control-line sets of the call
  calls,        \* the set_vfo and xcvr_cmd calls of the call
  lastPttSet,   \* argument of the latest PTT set that returned OK, '' if none
  lastSplitSet, \* argument of the latest SPLIT set that returned OK, '' if none
  lastVfoSet,   \* target of the latest set_vfo that returned True, '' if none
  fin,          \* a helper method applied on its own: its name and arguments
  fout,         \* and what it returned
  filename,     \* PyRigCatFile: what is on disk under self.filename
  fileobj,      \* self.fileobj: <<>> for None, <<n>> for a stream n lines in
  fres,         \* the latest PyRigCatFile call and what it returned
  yielded       \* the commands handed out since the latest open

vars == <<codec, ptt_method, ptt_is_on, vfo, split, radio, pc, cmd, args, resp,
          via, tlog, llog, calls, lastPttSet, lastSplitSet, lastVfoSet,
          fin, fout, filename, fileobj, fres, yielded>>

(* The variables of the command file, and those of the codec object. *)
filevars == <<filename, fileobj, fres, yielded>>
rigvars == <<codec, ptt_method, ptt_is_on, vfo, split, radio, pc, cmd, args, resp,
             via, tlog, llog, calls, lastPttSet, lastSplitSet, lastVfoSet,
             fin, fout>>

(* What a PyRigCatFile call hands back; opened tells whether self.fileobj
   was a stream when the call was made. *)
FileResult(op, command, success, errmsg, opened) ==
  [op |-> op, command |-> command, success |-> success, errmsg |-> errmsg,
   opened |-> opened]

(* PyRigCatFile.__init__: no stream; here for a name nothing is behind. *)
NoFile ==
  /\ filename = [exists |-> FALSE, lines |-> <<>>]
  /\ fileobj = <<>>
  /\ fres = FileResult("__init__", <<>>, TRUE, <<>>, FALSE)
  /\ yielded = <<>>

(* self._echo and self._has_data_modes as the constructors leave them. *)
EchoOf(k) == IsIcom(k)
HasDataModesOf(k) == k = "FT991"

(* The context of a call on the current object. *)
Ctx ==
  [codec |-> codec, echo |-> EchoOf(codec), addr |-> IcomAddrOf(codec),
   has_data_modes |-> HasDataModesOf(codec),
   ptt_method |-> ptt_method, ptt_is_on |-> ptt_is_on, vfo |-> vfo, split |-> split,
   radio |-> radio, tlog |-> <<>>, llog |-> <<>>, calls |-> <<>>, via |-> "generic",
   faults |-> 0]

(* The state after construction; the radio may be on either VFO. *)
Init ==
  /\ codec \in Codecs
  /\ ptt_method = IF codec = "FT991" THEN PttMethod_CAT ELSE PttMethod_NONE
  /\ ptt_is_on = BoolV(FALSE)
  /\ vfo = IF IsIcom(codec) THEN VfoA ELSE <<>>
  /\ split = IF IsIcom(codec) THEN OFF ELSE <<>>
  /\ radio \in [vfo : {VfoA, VfoB}]
  /\ pc = "idle"
  /\ cmd = <<>> /\ args = <<>> /\ resp = StrV(<<>>) /\ via = "generic"
  /\ tlog = <<>> /\ llog = <<>> /\ calls = <<>>
  /\ lastPttSet = <<>> /\ lastSplitSet = <<>> /\ lastVfoSet = <<>>
  /\ fin = [f |-> "", a |-> <<>>] /\ fout = <<>>
  /\ NoFile

(* The argument lists the commands are called with. *)
PttArgs == {<<>>, <<Str(<<"O", "N">>)>>, <<Str(<<"O", "F", "F">>)>>, <<Str(<<" ", "o", "n", " ">>)>>, <<Str(<<"F", "O", "O">>)>>}
MethodArgs == {<<>>, <<Str(<<"N", "O", "N", "E">>)>>, <<Str(<<"C", "A", "T">>)>>, <<Str(<<"D", "T", "R">>)>>, <<Str(<<"R", "T", "S">>)>>, <<Str(<<"c", "a", "t">>)>>}
AsciiArgs == {<<>>, <<Str(<<"F", "A", ";">>)>>, <<Str(<<"T", "X">>), Str(<<"1", ";">>)>>}
HexArgs == {<<>>, <<Str(<<"0", "0">>), Str(<<"5", "5">>), Str(<<"0", "0">>), Str(<<"0", "0">>), Str(<<"B", "B">>)>>, <<Str(<<"f", "e">>), Str(<<"F", "D">>)>>, <<Str(<<"Z", "Z">>)>>, <<Str(<<"1", "0", "0">>)>>}
FreqArgs == {<<>>, <<Str(<<"7", "0", "7", "4", "0", "0", "0">>)>>, <<Str(<<"1", "4", "0", "7", "4", "0", "0", "0">>)>>, <<Str(<<"1", "0", "0", "0", "0", "0">>)>>, <<Str(<<"4", "5", "0", "0", "0", "0", "0", "0", "0">>)>>, <<Str(<<"9", "9", "9", "9", "9">>)>>, <<Str(<<"4", "5", "0", "0", "0", "0", "0", "0", "1">>)>>, <<Str(<<"0">>)>>, <<Str(<<"7", ".", "0", "7", "4">>)>>}
ModeArgs == {<<>>, <<Str(<<"U", "S", "B">>)>>, <<Str(<<"D", "A", "T", "A", "-", "U", "S", "B">>)>>, <<Str(<<"C", "4", "F", "M">>)>>, <<Str(<<"X", "X">>)>>}
SplitArgs == {<<>>, <<Str(<<"O", "N">>)>>, <<Str(<<"O", "F", "F">>)>>, <<Str(<<"o", "f", "f">>)>>, <<Str(<<"X">>)>>}
VfoArgs == {<<>>, <<Str(<<"A">>)>>, <<Str(<<"B">>)>>, <<Str(<<"b">>)>>, <<Str(<<"C">>)>>}

PowerArgs == {<<>>, <<Str(<<"5", "0">>)>>, <<Str(<<"1", "0">>)>>, <<Str(<<"1", "0", "1">>)>>, <<Str(<<"a", "b", "c">>)>>}
LevelArgs == {<<>>, <<Str(<<"O", "N">>)>>, <<Str(<<"O", "N">>), Str(<<"5", "0">>)>>, <<Str(<<"O", "F", "F">>)>>, <<Str(<<"o", "n">>), Str(<<"1", "0", "1">>)>>, <<Str(<<"X">>)>>, <<Str(<<"O", "N">>), Str(<<"a", "b", "c">>)>>, <<Str(<<"O", "F", "F">>), Str(<<"5">>)>>, <<Str(<<"X">>), Str(<<"5", "0">>)>>}
ToneArgs == {<<>>, <<Str(<<"O", "F", "F">>)>>, <<Str(<<"E", "N", "C">>), Str(<<"1", "3", "1", "8">>)>>, <<Str(<<"D", "E", "C">>), Str(<<"6", "7", "0">>)>>, <<Str(<<"E", "N", "C">>), Str(<<"9", "9", "9", "9">>)>>, <<Str(<<"D", "E", "C">>), Str(<<"0", "6", "7", "0">>)>>, <<Str(<<"e", "n", "c">>), Str(<<"1", "0", "0", "0">>)>>, <<Str(<<"E", "N", "C">>)>>, <<Str(<<"X", "X">>), Str(<<"1", "3", "1", "8">>)>>, <<Str(<<"E", "N", "C">>), Str(<<"7", "1", "9">>)>>, <<Str(<<"D", "E", "C">>), Str(<<"9", "9", "9", "9">>)>>, <<Str(<<"D", "E", "C">>), Str(<<"1", "0", "0">>)>>}

EepromArgs == {<<>>, <<Str(<<"0", "x", "5", "5">>)>>, <<Str(<<"8", "5">>)>>, <<Str(<<"0", "x", "1", "9", "2", "5">>)>>, <<Str(<<"6", "4", "3", "7">>)>>, <<Str(<<"6", "4", "3", "8">>)>>, <<Str(<<"0", "x", "1", "9", "2", "6">>)>>, <<Str(<<"0">>)>>, <<Str(<<"2", "5", "6">>)>>, <<Str(<<"0", "x", "1", "8", "f", "f">>)>>, <<Str(<<"z", "z">>)>>, <<Str(<<"0", "x">>)>>, <<Str(<<"+", "8", "5">>)>>, <<Str(<<"-", "1">>)>>, <<Str(<<" ", "0", "x", "0", "1", "0", "0", " ">>)>>}

RptArgs == {<<>>, <<Str(<<"6", "0", "0", "0", "0", "0">>)>>, <<Str(<<"-", "6", "0", "0", "0", "0", "0">>)>>, <<Str(<<"+", "5", "0", "0", "0", "0", "0", "0">>)>>, <<Str(<<"0">>)>>, <<Str(<<"-", "0">>)>>, <<Str(<<"9", "9", "9", "9", "9", "9", "9">>)>>, <<Str(<<"-", "9", "9", "9", "9", "9", "9", "9">>)>>, <<Str(<<"1", "0", "0", "0", "0", "0", "0", "0">>)>>, <<Str(<<"-", "1", "0", "0", "0", "0", "0", "0", "0">>)>>, <<Str(<<"a", "b", "c">>)>>, <<Str(<<"6", "e", "5">>)>>, <<Str(<<" ", "1", "6", "0", "0", "0", "0", "0", " ">>)>>, <<Str(<<"1", ".", "5">>)>>, <<Str(<<"-">>)>>}

(* The latest successful set_vfo of a record of calls, old if there is none. *)
RECURSIVE LastOkSetVfo(_, _)
LastOkSetVfo(cs, old) ==
  IF cs = <<>> THEN old
  ELSE LET k == cs[Len(cs)] IN
       IF k.fn = "set_vfo" /\ k.ok THEN k.vfo
       ELSE LastOkSetVfo(SubSeq(cs, 1, Len(cs) - 1), old)

(* A caller hands ascii_cmd a command name and an argument list. *)
Request(cmd_str, arg_list) ==
  /\ pc' = "called"
  /\ cmd' = cmd_str
  /\ args' = arg_list
  /\ UNCHANGED <<codec, ptt_method, ptt_is_on, vfo, split, radio, resp, via,
                 tlog, llog, calls, lastPttSet, lastSplitSet, lastVfoSet,
                 fin, fout, filevars>>

(* ascii_cmd(cmd, args) of the object's class, from entry to return. *)
Dispatch ==
  /\ pc = "called"
  /\ \E x \in ascii_cmd(Ctx, cmd, args) :
       /\ ptt_method' = x.c.ptt_method
       /\ ptt_is_on' = x.c.ptt_is_on
       /\ vfo' = x.c.vfo
       /\ split' = x.c.split
       /\ radio' = x.c.radio
       /\ tlog' = x.c.tlog
       /\ llog' = x.c.llog
       /\ calls' = x.c.calls
       /\ via' = x.c.via
       /\ resp' = x.v
       /\ lastPttSet' = IF Upper(cmd) = Str(<<"P", "T", "T">>) /\ Arg0Upper(args) # <<>>
                           /\ x.v = StrV(OK)
                          THEN Arg0Upper(args) ELSE lastPttSet
       /\ lastSplitSet' = IF Upper(cmd) = Str(<<"S", "P", "L", "I", "T">>)
                             /\ Arg0Upper(args) # <<>> /\ x.v = StrV(OK)
                            THEN Arg0Upper(args) ELSE lastSplitSet
       /\ lastVfoSet' = LastOkSetVfo(x.c.calls, lastVfoSet)
  /\ pc' = "done"
  /\ UNCHANGED <<codec, cmd, args, fin, fout, filevars>>

(* The callers: one per command family, each with its argument lists. *)
DoPTT ==
  /\ pc = "idle"
  /\ \E n \in {Str(<<"P", "T", "T">>), Str(<<"p", "t", "t">>)}, al \in PttArgs : Request(n, al)

DoPttMethod ==
  /\ pc = "idle"
  /\ \E al \in MethodArgs : Request(Str(<<"P", "T", "T", "-", "M", "E", "T", "H", "O", "D">>), al)

DoAscii ==
  /\ pc = "idle"
  /\ \E al \in AsciiArgs : Request(Str(<<"A", "S", "C", "I", "I">>), al)

DoHex ==
  /\ pc = "idle"
  /\ \E al \in HexArgs : Request(Str(<<"H", "E", "X">>), al)

DoFreq ==
  /\ pc = "idle"
  /\ \E n \in {Str(<<"F", "R", "E", "Q">>), Str(<<"F", "R", "E", "Q", "A">>), Str(<<"F", "R", "E", "Q", "B">>)},
        al \in FreqArgs : Request(n, al)

(* MODE, MODEA and MODEB are modelled for the Icom classes and the FT-991
   class (which has no MODEA). *)
DoMode ==
  /\ pc = "idle"
  /\ IsIcom(codec) \/ codec = "FT991"
  /\ \E n \in {Str(<<"M", "O", "D", "E">>), Str(<<"M", "O", "D", "E", "A">>), Str(<<"M", "O", "D", "E", "B">>)},
        al \in ModeArgs : Request(n, al)

DoSplit ==
  /\ pc = "idle"
  /\ \E al \in SplitArgs : Request(Str(<<"S", "P", "L", "I", "T">>), al)

DoVfo ==
  /\ pc = "idle"
  /\ \E al \in VfoArgs : Request(Str(<<"V", "F", "O">>), al)

(* SWAPVFO is a name of the FT-991 class only. *)
DoSwapVfo ==
  /\ pc = "idle"
  /\ codec = "FT991"
  /\ Request(Str(<<"S", "W", "A", "P", "V", "F", "O">>), <<>>)

(* Names no class has. *)
DoUnknown ==
  /\ pc = "idle"
  /\ \E n \in {Str(<<"N", "O", "S", "U", "C", "H">>), Str(<<"P", "T", "T", "X">>)},
        al \in {<<>>, <<Str(<<"O", "N">>)>>} : Request(n, al)

(* POWER is modelled for the Icom classes, MONITOR and SPEECH for the Icom
   classes and the FT-991 class. *)
DoPower ==
  /\ pc = "idle"
  /\ IsIcom(codec)
  /\ \E al \in PowerArgs : Request(Str(<<"P", "O", "W", "E", "R">>), al)

DoMonitor ==
  /\ pc = "idle"
  /\ IsIcom(codec) \/ codec = "FT991"
  /\ \E al \in LevelArgs : Request(Str(<<"M", "O", "N", "I", "T", "O", "R">>), al)

DoSpeech ==
  /\ pc = "idle"
  /\ IsIcom(codec) \/ codec = "FT991"
  /\ \E al \in LevelArgs : Request(Str(<<"S", "P", "E", "E", "C", "H">>), al)

(* TONE is a name of every vendor class. *)
DoTone ==
  /\ pc = "idle"
  /\ codec # "BASE"
  /\ \E al \in ToneArgs : Request(Str(<<"T", "O", "N", "E">>), al)

(* EEPROM-READ is a name of the FT-817 class only. *)
DoEepromRead ==
  /\ pc = "idle"
  /\ codec = "FT817"
  /\ \E n \in {Str(<<"E", "E", "P", "R", "O", "M", "-", "R", "E", "A", "D">>), Str(<<"e", "e", "p", "r", "o", "m", "-", "r", "e", "a", "d">>)}, al \in EepromArgs : Request(n, al)

(* RPT-OFFSET is modelled for the FT-817 class. *)
DoRptOffset ==
  /\ pc = "idle"
  /\ codec = "FT817"
  /\ \E n \in {Str(<<"R", "P", "T", "-", "O", "F", "F", "S", "E", "T">>), Str(<<"r", "p", "t", "-", "o", "f", "f", "s", "e", "t">>)}, al \in RptArgs : Request(n, al)

(* The caller takes the value; the next call starts with empty records. *)
Return ==
  /\ pc = "done"
  /\ pc' = "idle"
  /\ cmd' = <<>> /\ args' = <<>> /\ resp' = StrV(<<>>) /\ via' = "generic"
  /\ tlog' = <<>> /\ llog' = <<>> /\ calls' = <<>>
  /\ UNCHANGED <<codec, ptt_method, ptt_is_on, vfo, split, radio,
                 lastPttSet, lastSplitSet, lastVfoSet, fin, fout, filevars>>

(***************************************************************************)
(* The helper methods on their own: an object, one method and its          *)
(* arguments, and what the method returns.                                 *)
(***************************************************************************)

(* The pair (val, max_val) that reaches int_to_bcd in
   PyRigCat_icom.power_level_cmd / set_power_level and monitor_level_cmd /
   set_monitor_level for the level int(level_str), <<>> when the level is
   refused first. *)
icom_level_bcd_args(level_pct) ==
  IF level_pct < 0 \/ level_pct > 100 THEN <<>>
  ELSE <<icom_pct_to_maxbyte(level_pct), 255>>

(* The pair that reaches int_to_bcd in PyRigCat_icom.tone_freq_cmd for
   ifreq = int(freq). *)
icom_tone_freq_bcd_args(ifreq) ==
  IF ifreq >= 670 /\ ifreq <= 2541 THEN <<ifreq, 2541>> ELSE <<>>

(* The pair that reaches int_to_bcd in PyRigCat_icom.rpt_offset_cmd for
   ifreq = int(freq) when the frequency read and the shift command went
   well: zero is simplex and has no offset, a negative offset is made
   positive, and int_to_bcd takes the integer part of ifreq / 100. *)
icom_rpt_offset_bcd_args(ifreq) ==
  IF ~(ifreq >= -9999999 /\ ifreq <= 9999999) THEN <<>>
  ELSE IF ifreq = 0 THEN <<>>
  ELSE <<(IF ifreq < 0 THEN -ifreq ELSE ifreq) \div 100, 999999>>

(* The arguments the helper methods are applied to. *)
BcdMaxVals == {1, 9, 10, 99, 100, 255, 999, 1000, 2541}
BcdWideVals == {0, 1, 9, 6000, 16000, 50000, 99999, 100000, 999999}
BcdInputs ==
  { <<v, m>> : v \in 0..2541, m \in BcdMaxVals } \cup { <<v, 999999>> : v \in BcdWideVals }
LevelInputs == { <<n>> : n \in 0..102 }
ToneFreqInputs == { <<n>> : n \in 660..2550 }
RptOffsetInputs ==
  { <<n>> : n \in {-10000000, -9999999, -5000000, -600000, -100, -99, -1, 0, 1, 99, 100,
                   500000, 600000, 1600000, 5000000, 9999999, 10000000} }

ByteInputs == { <<n>> : n \in 0..255 }

FreqInputs ==
  { <<n>> : n \in (99990..100030) \cup (7073990..7074120) \cup (144999995..145000005)
                    \cup (449999980..450000010) \cup {28123456, 50313999, 99999999, 100000000, 432109876} }

PctInputs == { <<n>> : n \in 0..100 }

HelperInputs ==
  [f : {"int_to_bcd"}, a : { x \in BcdInputs : x[1] <= x[2] }]
    \cup [f : {"set_power_level", "set_monitor_level"}, a : LevelInputs]
    \cup [f : {"tone_freq_cmd"}, a : ToneFreqInputs]
    \cup [f : {"rpt_offset_cmd"}, a : RptOffsetInputs]
    \cup [f : {"maxbyte_to_pct"}, a : ByteInputs]
    \cup [f : {"set_mode"}, a : MODE_LIST]
    \cup [f : {"power_level", "monitor_level", "speech_level", "pct_to_maxbyte"}, a : PctInputs]
    \cup [f : {"set_frequency_hz"}, a : FreqInputs]

(* An object of one of the classes and a helper call about to be made. *)
InitCalc ==
  /\ codec \in Codecs
  /\ ptt_method = IF codec = "FT991" THEN PttMethod_CAT ELSE PttMethod_NONE
  /\ ptt_is_on = BoolV(FALSE)
  /\ vfo = IF IsIcom(codec) THEN VfoA ELSE <<>>
  /\ split = IF IsIcom(codec) THEN OFF ELSE <<>>
  /\ radio = [vfo |-> VfoA]
  /\ pc = "calc"
  /\ cmd = <<>> /\ args = <<>> /\ resp = StrV(<<>>) /\ via = "generic"
  /\ tlog = <<>> /\ llog = <<>> /\ calls = <<>>
  /\ lastPttSet = <<>> /\ lastSplitSet = <<>> /\ lastVfoSet = <<>>
  /\ fin \in HelperInputs
  /\ fout = <<>>
  /\ NoFile

(* The helper returns out. *)
Returned(out) ==
  /\ pc' = "calced"
  /\ fout' = out
  /\ UNCHANGED <<codec, ptt_method, ptt_is_on, vfo, split, radio, cmd, args, resp,
                 via, tlog, llog, calls, lastPttSet, lastSplitSet, lastVfoSet, fin, filevars>>

(* The pair handed to int_to_bcd followed by the digits it returns, <<>>
   when the call site is not reached. *)
BcdCall(pair) == IF pair = <<>> THEN <<>> ELSE pair \o int_to_bcd(pair[1], pair[2])

(* self.int_to_bcd(val, max_val) *)
ApplyIntToBcd ==
  /\ pc = "calc" /\ fin.f = "int_to_bcd"
  /\ Returned(int_to_bcd(fin.a[1], fin.a[2]))

(* The int_to_bcd call of set_power_level and of set_monitor_level. *)
ApplyLevelBcd ==
  /\ pc = "calc" /\ fin.f \in {"set_power_level", "set_monitor_level"} /\ IsIcom(codec)
  /\ Returned(BcdCall(icom_level_bcd_args(fin.a[1])))

(* The int_to_bcd call of tone_freq_cmd. *)
ApplyToneFreqBcd ==
  /\ pc = "calc" /\ fin.f = "tone_freq_cmd" /\ IsIcom(codec)
  /\ Returned(BcdCall(icom_tone_freq_bcd_args(fin.a[1])))

(* The int_to_bcd call of rpt_offset_cmd. *)
ApplyRptOffsetBcd ==
  /\ pc = "calc" /\ fin.f = "rpt_offset_cmd" /\ IsIcom(codec)
  /\ Returned(BcdCall(icom_rpt_offset_bcd_args(fin.a[1])))

(* self.maxbyte_to_pct(val) *)
ApplyMaxbyteToPct ==
  /\ pc = "calc" /\ fin.f = "maxbyte_to_pct" /\ IsIcom(codec)
  /\ Returned(<<icom_maxbyte_to_pct(fin.a[1])>>)

(* self.pct_to_maxbyte(pct) of the percentage maxbyte_to_pct returned. *)
ApplyPctToMaxbyte ==
  /\ pc = "calced" /\ fin.f = "maxbyte_to_pct"
  /\ pc' = "calced2"
  /\ fout' = fout \o <<icom_pct_to_maxbyte(fout[1])>>
  /\ UNCHANGED <<codec, ptt_method, ptt_is_on, vfo, split, radio, cmd, args, resp,
                 via, tlog, llog, calls, lastPttSet, lastSplitSet, lastVfoSet, fin, filevars>>

(* self.pct_to_maxbyte(pct) *)
ApplyPctToMaxbyteOf ==
  /\ pc = "calc" /\ fin.f = "pct_to_maxbyte" /\ IsIcom(codec)
  /\ Returned(<<icom_pct_to_maxbyte(fin.a[1])>>)

(* self.maxbyte_to_pct(val) of the value pct_to_maxbyte returned. *)
ApplyMaxbyteToPctOf ==
  /\ pc = "calced" /\ fin.f = "pct_to_maxbyte"
  /\ pc' = "calced2"
  /\ fout' = fout \o <<icom_maxbyte_to_pct(fout[1])>>
  /\ UNCHANGED <<codec, ptt_method, ptt_is_on, vfo, split, radio, cmd, args, resp,
                 via, tlog, llog, calls, lastPttSet, lastSplitSet, lastVfoSet, fin, filevars>>

(* The code the mode set path of the object's class sends for a mode: the
   first frame byte (FT-817), the mode character of MD0 (FT-991), the
   subcommand (Icom); <<>> when the set path sends nothing for it. *)
set_mode_code(k, mode) ==
  IF k = "FT817"
    THEN (IF ft817_mode_code(mode) < 0 THEN <<>> ELSE <<ft817_mode_code(mode)>>)
  ELSE IF k = "FT991"
    THEN (IF ft991_mode_num(mode) = Str(<<"X">>) THEN <<>> ELSE ft991_mode_num(mode))
  ELSE (IF icom_mode_scmd(HasDataModesOf(k), mode) < 0 THEN <<>>
        ELSE <<icom_mode_scmd(HasDataModesOf(k), mode)>>)

(* What the mode get path of the object's class makes of that code in the
   radio's reply. *)
get_mode_name(k, code) ==
  IF k = "FT817" THEN ft817_mode_name(code[1])
  ELSE IF k = "FT991" THEN StrV(ft991_mode_name(code))
  ELSE StrV(icom_mode_name(code[1]))

(* self.set_mode(mode), or op_mode_cmd(mode): the code it sends. *)
ApplySetModeCode ==
  /\ pc = "calc" /\ fin.f = "set_mode" /\ codec # "BASE"
  /\ Returned(set_mode_code(codec, fin.a))

(* self.get_mode(), or op_mode_cmd(''), when the radio reports the code the
   set path sent; the method may raise. *)
ApplyGetModeName ==
  /\ pc = "calced" /\ fin.f = "set_mode" /\ fout # <<>>
  /\ LET v == get_mode_name(codec, fout) IN
       /\ pc' = IF v.tag = "raise" THEN "raised" ELSE "calced2"
       /\ fout' = v.s
  /\ UNCHANGED <<codec, ptt_method, ptt_is_on, vfo, split, radio, cmd, args, resp,
                 via, tlog, llog, calls, lastPttSet, lastSplitSet, lastVfoSet, fin, filevars>>

(* self.set_frequency_hz(freq) of the FT-817 and Icom classes: the BCD
   bytes it sends, <<>> when it refuses the frequency. *)
ApplySetFrequencyBcd ==
  /\ pc = "calc" /\ fin.f = "set_frequency_hz" /\ (codec = "FT817" \/ IsIcom(codec))
  /\ Returned(IF ~FreqInRange(fin.a[1]) THEN <<>>
              ELSE IF codec = "FT817" THEN ft817_freq_bcd(fin.a[1])
              ELSE icom_freq_bcd(fin.a[1]))

(* self.get_frequency_hz() when the radio reports those bytes. *)
ApplyGetFrequencyHz ==
  /\ pc = "calced" /\ fin.f = "set_frequency_hz" /\ fout # <<>>
  /\ pc' = "calced2"
  /\ fout' = <<IF codec = "FT817" THEN ft817_freq_of(fout \o <<1>>) ELSE BcdLsbFirst(fout)>>
  /\ UNCHANGED <<codec, ptt_method, ptt_is_on, vfo, split, radio, cmd, args, resp,
                 via, tlog, llog, calls, lastPttSet, lastSplitSet, lastVfoSet, fin, filevars>>

(* set_power_level, set_monitor_level or set_speech_level: the level bytes
   of the frame it sends. *)
ApplySetLevelBytes ==
  /\ pc = "calc" /\ fin.f \in {"power_level", "monitor_level", "speech_level"} /\ IsIcom(codec)
  /\ Returned(IF fin.f = "speech_level" THEN <<icom_speech_byte(fin.a[1])>>
              ELSE icom_level_bytes(fin.a[1]))

(* get_power_level, get_monitor_level or get_speech_level when the radio
   reports those level bytes. *)
ApplyGetLevelPct ==
  /\ pc = "calced" /\ fin.f \in {"power_level", "monitor_level", "speech_level"}
  /\ pc' = "calced2"
  /\ fout' = <<IF fin.f = "speech_level" THEN icom_speech_level_of(fout[1])
               ELSE icom_level_of(fout[1], fout[2])>>
  /\ UNCHANGED <<codec, ptt_method, ptt_is_on, vfo, split, radio, cmd, args, resp,
                 via, tlog, llog, calls, lastPttSet, lastSplitSet, lastVfoSet, fin, filevars>>

NextCalc ==
  \/ ApplyIntToBcd
  \/ ApplySetLevelBytes
  \/ ApplyGetLevelPct
  \/ ApplySetFrequencyBcd
  \/ ApplyGetFrequencyHz
  \/ ApplySetModeCode
  \/ ApplyGetModeName
  \/ ApplyMaxbyteToPct
  \/ ApplyPctToMaxbyte
  \/ ApplyPctToMaxbyteOf
  \/ ApplyMaxbyteToPctOf
  \/ ApplyLevelBcd
  \/ ApplyToneFreqBcd
  \/ ApplyRptOffsetBcd

SpecCalc == InitCalc /\ [][NextCalc]_vars

(***************************************************************************)
(* PyRigCatFile: a file of CAT commands read one line at a time.  The file *)
(* is its lines without their terminators; the reads of an opened file     *)
(* succeed.                                                                *)
(***************************************************************************)

(* str.find('#'): the index of the first '#', -1 when there is none. *)
find_hash(command) ==
  IF \E i \in 1..Len(command) : command[i] = 35
    THEN (CHOOSE i \in 1..Len(command) :
            command[i] = 35 /\ \A j \in 1..(i - 1) : command[j] # 35) - 1
    ELSE -1

(* str.rfind('#'): the index of the last '#'. *)
rfind_hash(command) ==
  IF \E i \in 1..Len(command) : command[i] = 35
    THEN (CHOOSE i \in 1..Len(command) :
            command[i] = 35 /\ \A j \in (i + 1)..Len(command) : command[j] # 35) - 1
    ELSE -1

(* A comment taken to start at the last '#' of the line. *)
strip_comment_last(command) ==
  LET idx == rfind_hash(command) IN
  IF idx >= 0 THEN SubSeq(command, 1, idx) ELSE command

(* next_command, "Strip comments": command[:idx] from the first '#'. *)
strip_comment(command) ==
  LET idx == find_hash(command) IN
  IF idx >= 0 THEN SubSeq(command, 1, idx) ELSE command

(* The while loop of next_command on a stream pos lines into the file:
   readline() gives the next line with its terminator, '' at the end. *)
RECURSIVE read_loop(_, _)
read_loop(lines, pos) ==
  IF pos >= Len(lines)
    THEN [command |-> <<>>, success |-> FALSE, errmsg |-> Str(<<"E", "O", "F">>), fileobj |-> <<pos>>]
    ELSE LET command == Strip(strip_comment(lines[pos + 1] \o <<10>>)) IN
         IF Len(command) > 0
           THEN [command |-> command, success |-> TRUE, errmsg |-> <<>>, fileobj |-> <<pos + 1>>]
           ELSE read_loop(lines, pos + 1)

(* PyRigCatFile.next_command *)
next_command(lines, fobj) ==
  IF fobj # <<>> THEN read_loop(lines, fobj[1])
  ELSE [command |-> <<>>, success |-> FALSE, errmsg |-> Str(<<"E", "O", "F">>), fileobj |-> fobj]

(* The most lines a command file has. *)
MaxLines == 3

(* The lines the command files are made of; <<32, 9>> is a blank and a tab. *)
FileLineKinds == {Str(<<"F", "R", "E", "Q", " ", "7">>), Str(<<" ", "P", "T", "T", " ", "O", "N", " ", "#", " ", "x">>), Str(<<"#", " ", "c">>), Str(<<>>), <<32, 9>>, Str(<<"A", "#", "B", "#", "C">>)}

(* The command files: none under the name, or up to MaxLines lines. *)
Files ==
  {[exists |-> FALSE, lines |-> <<>>]}
    \cup [exists : {TRUE}, lines : UNION { [1..n -> FileLineKinds] : n \in 0..MaxLines }]

InitFile ==
  /\ codec = "BASE"
  /\ ptt_method = PttMethod_NONE
  /\ ptt_is_on = BoolV(FALSE)
  /\ vfo = <<>> /\ split = <<>>
  /\ radio = [vfo |-> VfoA]
  /\ pc = "idle"
  /\ cmd = <<>> /\ args = <<>> /\ resp = StrV(<<>>) /\ via = "generic"
  /\ tlog = <<>> /\ llog = <<>> /\ calls = <<>>
  /\ lastPttSet = <<>> /\ lastSplitSet = <<>> /\ lastVfoSet = <<>>
  /\ fin = [f |-> "", a |-> <<>>] /\ fout = <<>>
  /\ filename \in Files
  /\ fileobj = <<>>
  /\ fres = FileResult("__init__", <<>>, TRUE, <<>>, FALSE)
  /\ yielded = <<>>

(* PyRigCatFile.open: a stream left open is dropped first; the message of
   a failed open is the text of the exception. *)
FileOpen ==
  /\ fileobj' = IF filename.exists THEN <<0>> ELSE <<>>
  /\ fres' = FileResult("open", <<>>, filename.exists,
                        IF filename.exists THEN <<>> ELSE Str(<<"N", "o", " ", "s", "u", "c", "h", " ", "f", "i", "l", "e">>),
                        fileobj # <<>>)
  /\ yielded' = <<>>
  /\ UNCHANGED <<filename, rigvars>>

(* PyRigCatFile.__iter__: open() and a printed message when it failed. *)
FileIter ==
  /\ fileobj' = IF filename.exists THEN <<0>> ELSE <<>>
  /\ fres' = FileResult("__iter__", <<>>, filename.exists, <<>>, fileobj # <<>>)
  /\ yielded' = <<>>
  /\ UNCHANGED <<filename, rigvars>>

(* PyRigCatFile.next_command *)
FileNextCommand ==
  LET r == next_command(filename.lines, fileobj) IN
  /\ fileobj' = r.fileobj
  /\ fres' = FileResult("next_command", r.command, r.success, r.errmsg, fileobj # <<>>)
  /\ yielded' = IF r.success THEN Append(yielded, r.command) ELSE yielded
  /\ UNCHANGED <<filename, rigvars>>

(* PyRigCatFile.__next__: the command, or close() and StopIteration. *)
FileIterNext ==
  LET r == next_command(filename.lines, fileobj) IN
  /\ fileobj' = IF r.success THEN r.fileobj ELSE <<>>
  /\ fres' = FileResult("__next__", r.command, r.success,
                        IF r.success THEN <<>> ELSE Str(<<"S", "t", "o", "p", "I", "t", "e", "r", "a", "t", "i", "o", "n">>), fileobj # <<>>)
  /\ yielded' = IF r.success THEN Append(yielded, r.command) ELSE yielded
  /\ UNCHANGED <<filename, rigvars>>

(* PyRigCatFile.close: the call on the stream raises (the name fileobj is
   not defined there) and is caught; the reference is dropped. *)
FileClose ==
  /\ fileobj' = <<>>
  /\ fres' = FileResult("close", <<>>, TRUE, <<>>, fileobj # <<>>)
  /\ UNCHANGED <<filename, yielded, rigvars>>

NextFile ==
  \/ FileOpen
  \/ FileIter
  \/ FileNextCommand
  \/ FileIterNext
  \/ FileClose

SpecFile == InitFile /\ [][NextFile]_vars

(* The commands the generic router resolves, and the names no class has. *)
NextRouter ==
  \/ DoPTT
  \/ DoPttMethod
  \/ DoAscii
  \/ DoHex
  \/ DoUnknown
  \/ Dispatch
  \/ Return

(* The frequency, mode, split and VFO commands of the vendor classes. *)
NextTune ==
  \/ DoFreq
  \/ DoMode
  \/ DoSplit
  \/ DoVfo
  \/ DoSwapVfo
  \/ Dispatch
  \/ Return

(* The level commands of the Icom classes and the tone command of the
   FT-991 class. *)
NextLevel ==
  \/ DoPower
  \/ DoMonitor
  \/ DoSpeech
  \/ DoTone
  \/ Dispatch
  \/ Return

(* The EEPROM read of the FT-817 class. *)
NextRepeater ==
  \/ DoRptOffset
  \/ Dispatch
  \/ Return

NextEeprom ==
  \/ DoEepromRead
  \/ Dispatch
  \/ Return

Next == NextRouter \/ NextTune \/ NextLevel \/ NextEeprom \/ NextRepeater \/ NextFile

Spec == Init /\ [][Next]_vars
SpecRouter == Init /\ [][NextRouter]_vars
SpecTune == Init /\ [][NextTune]_vars
SpecLevel == Init /\ [][NextLevel]_vars
SpecEeprom == Init /\ [][NextEeprom]_vars
SpecRepeater == Init /\ [][NextRepeater]_vars

(***************************************************************************)
(* Properties.                                                             *)
(***************************************************************************)

(* The command of the call is a set: its first argument is not empty. *)
IsSet == Arg0Upper(args) # <<>>
IsQuery == Arg0Upper(args) = <<>>

(* The names some handler in the chain of the codec's class recognizes. *)
Recognized(k) == GenericNames \cup VendorNames(k)

(* C1: on every vendor class, a call whose upper-cased name is PTT,
   PTT-METHOD, ASCII or HEX is resolved by the generic router: the vendor
   name matching is never reached, whatever the arguments and the reply. *)
C1_GenericResolvedByRouter ==
  (pc = "done" /\ codec # "BASE" /\ Upper(cmd) \in GenericNames) => via = "generic"

(* An ASCII passthrough whose reply text reads NOT FOUND fell through to the
   vendor name matching. *)
C1_FellThrough ==
  /\ pc = "done" /\ codec = "FT817"
  /\ Upper(cmd) = Str(<<"A", "S", "C", "I", "I">>)
  /\ tlog # <<>> /\ tlog[1].sent > 0 /\ tlog[1].got = NOTFOUND
  /\ via = "vendor"

(* C2: ascii_cmd returns NOTFOUND if and only if no handler of the class
   recognizes the upper-cased name, and an unrecognized name writes nothing
   to the transport. *)
C2_NotFoundIffUnrecognized ==
  pc = "done" =>
    /\ (resp = StrV(NOTFOUND)) <=> (Upper(cmd) \notin Recognized(codec))
    /\ Upper(cmd) \notin Recognized(codec) => tlog = <<>>

(* A recognized command (ASCII) returned NOTFOUND. *)
C2_RecognizedNotFound ==
  /\ pc = "done"
  /\ Upper(cmd) = Str(<<"A", "S", "C", "I", "I">>)
  /\ tlog # <<>> /\ tlog[1].sent > 0
  /\ resp = StrV(NOTFOUND)

(* C3: on every class, the base class included, a PTT, VFO or SPLIT set
   that returns ERROR leaves the shadow variables (_ptt_is_on, _vfo, _split)
   as they were before the call. *)
C3_FailedSetKeepsShadow ==
  [][(/\ pc = "called" /\ pc' = "done"
      /\ Upper(cmd) \in {Str(<<"P", "T", "T">>), Str(<<"V", "F", "O">>), Str(<<"S", "P", "L", "I", "T">>)}
      /\ IsSet
      /\ resp' = StrV(ERROR))
     => (ptt_is_on' = ptt_is_on /\ vfo' = vfo /\ split' = split)]_vars

(* The base class, method CAT: PTT ON returned ERROR and the flag is set. *)
C3_ErrorButFlagSet ==
  /\ pc = "done" /\ codec = "BASE" /\ ptt_method = PttMethod_CAT
  /\ Upper(cmd) = Str(<<"P", "T", "T">>) /\ Arg0Upper(args) = ON
  /\ resp = StrV(ERROR)
  /\ lastPttSet = <<>>
  /\ ptt_is_on = BoolV(TRUE)

(* C4: on the FT-817 class with method CAT, a PTT query returns ON exactly
   when the latest PTT set that returned OK was ON, and OFF when it was OFF
   or when no set has returned OK yet. *)
C4_PttQueryTracksLastSet ==
  (/\ pc = "done" /\ codec = "FT817" /\ ptt_method = PttMethod_CAT
   /\ Upper(cmd) = Str(<<"P", "T", "T">>) /\ IsQuery
   /\ lastPttSet \in {<<>>, ON, OFF})
  => resp = StrV(IF lastPttSet = ON THEN ON ELSE OFF)

(* The latest successful set was OFF and the query answers ON. *)
C4_OffReportedOn ==
  /\ pc = "done" /\ codec = "FT817" /\ ptt_method = PttMethod_CAT
  /\ Upper(cmd) = Str(<<"P", "T", "T">>) /\ IsQuery
  /\ lastPttSet = OFF
  /\ resp = StrV(ON)

(* The shadow VFO the Icom class should hold: the target of the latest
   set_vfo whose transaction succeeded, 'A' if there is none. *)
ExpectedVfo == IF lastVfoSet = <<>> THEN VfoA ELSE lastVfoSet

(* C5: on the Icom classes get_vfo returns the target of the latest set_vfo
   whose CI-V transaction succeeded, the ones FREQA, FREQB, MODEA and MODEB
   issue included, and 'A' if none has; nothing else changes the shadow. *)
C5_VfoShadowIsLastSuccessfulSet ==
  IsIcom(codec) =>
    /\ vfo = ExpectedVfo
    /\ (pc = "done" /\ Upper(cmd) = Str(<<"V", "F", "O">>) /\ IsQuery) => resp = StrV(ExpectedVfo)

(* A VFO query answers 'B' in a call that follows a FREQB or MODEB whose
   switch succeeded and whose restore failed, or a successful VFO B. *)
C5_QueryAfterSets ==
  /\ pc = "done" /\ IsIcom(codec)
  /\ Upper(cmd) = Str(<<"V", "F", "O">>) /\ IsQuery
  /\ lastVfoSet = VfoB
  /\ resp = StrV(VfoB)

(* C6: on the Icom classes, after a SPLIT ON that returned OK a SPLIT query
   returns ON, and after a SPLIT OFF that returned OK it returns OFF, until
   the next successful split set. *)
C6_SplitQueryTracksLastSet ==
  (/\ pc = "done" /\ IsIcom(codec)
   /\ Upper(cmd) = Str(<<"S", "P", "L", "I", "T">>) /\ IsQuery
   /\ lastSplitSet # <<>>)
  => resp = StrV(lastSplitSet)

(* SPLIT ON returned OK and the query answers OFF. *)
C6_OnReportedOff ==
  /\ pc = "done" /\ IsIcom(codec)
  /\ Upper(cmd) = Str(<<"S", "P", "L", "I", "T">>) /\ IsQuery
  /\ lastSplitSet = ON
  /\ resp = StrV(OFF)

(* The VFO the command addresses. *)
TargetVfo == IF Upper(cmd) = Str(<<"F", "R", "E", "Q", "A">>) THEN VfoA
             ELSE IF Upper(cmd) = Str(<<"F", "R", "E", "Q", "B">>) THEN VfoB ELSE <<>>

(* Every VFO status read (EEPROM read, opcode 0xBB) and every VFO toggle
   (opcode 0x81) of the log was written and answered by the radio. *)
VfoTransactionsOk(tl) ==
  \A i \in 1..Len(tl) :
    tl[i].frame[5] \in {187, 129} => tl[i].sent = 5 /\ tl[i].kind = "good"

(* C7: on the FT-817 class a FREQA or FREQB query addressed to the VFO that
   is not in use ends with the radio on the VFO it was on before, whether
   the frequency read succeeds or fails, given that the VFO status reads and
   the VFO toggles succeed. *)
C7_QueryRestoresVfo ==
  [][(/\ pc = "called" /\ pc' = "done" /\ codec = "FT817"
      /\ TargetVfo # <<>> /\ TargetVfo # radio.vfo
      /\ args = <<>>
      /\ VfoTransactionsOk(tlog'))
     => radio'.vfo = radio.vfo]_vars

(* A FREQB query with the radio on VFO A: status read, switch (status read
   and toggle), a frequency read that failed, restore (status read and
   toggle); the radio is on VFO A again. *)
C7_RestoredAfterFailedRead ==
  /\ pc = "done" /\ codec = "FT817"
  /\ Upper(cmd) = Str(<<"F", "R", "E", "Q", "B">>) /\ args = <<>>
  /\ Len(tlog) = 6 /\ VfoTransactionsOk(tlog)
  /\ tlog[1].got = <<0, 0>>
  /\ tlog[3].frame[5] = 129 /\ tlog[6].frame[5] = 129
  /\ tlog[4].frame[5] = 3 /\ tlog[4].kind # "good"
  /\ resp = StrV(ERROR)
  /\ radio.vfo = VfoA

(* C8: in the FT-817 frequency command addressed to the VFO not in use, the
   restore step (set_vfo back to the saved VFO) is executed whatever the
   switch step returned. *)
C8_RestoreWhateverTheSwitch ==
  (/\ pc = "done" /\ codec = "FT817" /\ TargetVfo # <<>>
   /\ calls # <<>> /\ calls[1].fn = "set_vfo" /\ calls[1].vfo = TargetVfo)
  => Len(calls) >= 2

(* The switch to VFO B failed and no second set_vfo was called. *)
C8_SwitchFailedNoRestore ==
  /\ pc = "done" /\ codec = "FT817"
  /\ Upper(cmd) = Str(<<"F", "R", "E", "Q", "B">>) /\ args = <<>>
  /\ Len(calls) = 1 /\ calls[1].vfo = VfoB /\ ~calls[1].ok
  /\ tlog[Len(tlog)].frame[5] = 129

(* C9: a CI-V transaction reports success if and only if the frame was
   written whole, the bytes read number at least 6 + the frame length (the
   line echoes) + the expected data length, and the last byte read is 0xFD;
   it writes exactly once and reads at most once. *)
C9_CivStatus ==
  IsIcom(codec) =>
    \A k \in 1..Len(calls) :
      calls[k].fn = "xcvr_cmd" =>
        LET e == tlog[calls[k].t1] IN
        /\ calls[k].t1 = calls[k].t0 + 1
        /\ e.reads <= 1
        /\ calls[k].ok <=>
             /\ e.sent = Len(e.frame)
             /\ Len(e.got) >= 6 + Len(e.frame) + calls[k].n
             /\ e.got[Len(e.got)] = 253

(* One call with a transaction that succeeded and one that failed on a
   reply of the full length whose last byte is not 0xFD. *)
C9_GoodAndBadTerminator ==
  /\ pc = "done" /\ IsIcom(codec)
  /\ \E j, k \in 1..Len(calls) :
       /\ calls[j].fn = "xcvr_cmd" /\ calls[j].ok
       /\ calls[k].fn = "xcvr_cmd" /\ ~calls[k].ok
       /\ tlog[calls[k].t1].kind = "badterm"
       /\ Len(tlog[calls[k].t1].got) >= 6 + Len(tlog[calls[k].t1].frame) + calls[k].n

(* The call is a frequency set: FREQ, FREQA or FREQB with a numeric,
   non-zero argument. *)
IsFreqSet ==
  /\ Upper(cmd) \in {Str(<<"F", "R", "E", "Q">>), Str(<<"F", "R", "E", "Q", "A">>), Str(<<"F", "R", "E", "Q", "B">>)}
  /\ IsNumeric(Arg0(args))
  /\ ToInt(Arg0(args)) > 0

(* C10: on every vendor class a frequency set whose value lies outside
   100,000 .. 450,000,000 Hz returns ERROR and writes no bytes to the
   transport. *)
C10_OutOfRangeRejectedUnsent ==
  (pc = "done" /\ codec # "BASE" /\ IsFreqSet /\ ~FreqInRange(ToInt(Arg0(args))))
  => /\ resp = StrV(ERROR)
     /\ \A i \in 1..Len(tlog) : tlog[i].sent = 0

(* The FT-991 class sent FA000099999; and returned OK. *)
C10_OutOfRangeSent ==
  /\ pc = "done" /\ codec = "FT991"
  /\ Upper(cmd) = Str(<<"F", "R", "E", "Q">>) /\ args = <<Str(<<"9", "9", "9", "9", "9">>)>>
  /\ Len(tlog) = 1 /\ tlog[1].sent = 12
  /\ tlog[1].frame = Str(<<"F", "A", "0", "0", "0", "0", "9", "9", "9", "9", "9", ";">>)
  /\ resp = StrV(OK)

(* C11: on the FT-991 class a recognized vendor command whose transaction
   fails at the transport (a write that sent fewer bytes than the frame has,
   or a query whose read timed out with no bytes) returns exactly ERROR. *)
C11_TransportFailureIsError ==
  (/\ pc = "done" /\ codec = "FT991" /\ Upper(cmd) \in Ft991Names
   /\ \E k \in 1..Len(tlog) :
        \/ tlog[k].sent # Len(tlog[k].frame)
        \/ IsQuery /\ Upper(cmd) # Str(<<"S", "W", "A", "P", "V", "F", "O">>) /\ tlog[k].reads = 1 /\ tlog[k].got = <<>>)
  => resp = StrV(ERROR)

(* A FREQ query whose frame FA; went out and whose read timed out came back
   as OK. *)
C11_QueryTimeoutReportedOk ==
  /\ pc = "done" /\ codec = "FT991"
  /\ Upper(cmd) = Str(<<"F", "R", "E", "Q">>) /\ args = <<>>
  /\ Len(tlog) = 1 /\ tlog[1].frame = Str(<<"F", "A", ";">>) /\ tlog[1].sent = 3
  /\ tlog[1].reads = 1 /\ tlog[1].got = <<>>
  /\ resp = StrV(OK)

(* A CI-V transaction of the call failed. *)
CivFailed == \E k \in 1..Len(calls) : calls[k].fn = "xcvr_cmd" /\ ~calls[k].ok

(* C12: on the Icom classes a recognized command one of whose CI-V
   transactions failed returns exactly ERROR; a POWER, MONITOR or SPEECH
   query whose transaction failed returns no numeric level. *)
C12_CivFailureIsError ==
  (pc = "done" /\ IsIcom(codec) /\ Upper(cmd) \in IcomNames /\ CivFailed)
  => resp = StrV(ERROR)

(* A POWER query whose reply never came returned the level 0. *)
C12_FailedPowerQueryGaveLevel ==
  /\ pc = "done" /\ IsIcom(codec)
  /\ Upper(cmd) = Str(<<"P", "O", "W", "E", "R">>) /\ args = <<>>
  /\ Len(calls) = 1 /\ ~calls[1].ok
  /\ Len(tlog) = 1 /\ tlog[1].got = <<>>
  /\ resp = StrV(Str(<<"0">>))

(* C13: every value ascii_cmd returns, for every command name and argument
   list on every class, is a text response (a str); PTT-METHOD with an
   argument reports its outcome as text. *)
C13_ResponseIsText == pc = "done" => resp.tag = "str"

(* PTT-METHOD CAT returned the bool True. *)
C13_MethodSetReturnedBool ==
  /\ pc = "done"
  /\ Upper(cmd) = Str(<<"P", "T", "T", "-", "M", "E", "T", "H", "O", "D">>) /\ args = <<Str(<<"C", "A", "T">>)>>
  /\ ptt_method = PttMethod_CAT
  /\ resp = BoolV(TRUE)

(* The call is PTT with the argument ON or OFF under the given method. *)
PttSetUnder(method) ==
  /\ Upper(cmd) = Str(<<"P", "T", "T">>)
  /\ ptt_method = method
  /\ Arg0Upper(args) \in {ON, OFF}

(* C14: with PTT method DTR, PTT ON / PTT OFF sets the DTR line to true /
   false, once; when the line set succeeds the shadow PTT state becomes the
   requested state and OK is returned, when it fails the shadow state is
   unchanged and ERROR is returned; nothing is written to the transport. *)
C14_DtrKeying ==
  [][(pc = "called" /\ pc' = "done" /\ PttSetUnder(PttMethod_DTR))
     => LET want == Arg0Upper(args) = ON IN
        /\ Len(llog') = 1 /\ llog'[1].line = "DTR" /\ llog'[1].val = want
        /\ tlog' = <<>>
        /\ IF llog'[1].ok
             THEN ptt_is_on' = BoolV(want) /\ resp' = StrV(OK)
             ELSE ptt_is_on' = ptt_is_on /\ resp' = StrV(ERROR)]_vars

(* After an earlier PTT ON keyed the line, a PTT OFF whose line set failed
   returned ERROR and left the shadow state on. *)
C14_DtrOffFailedStaysOn ==
  /\ pc = "done" /\ PttSetUnder(PttMethod_DTR) /\ Arg0Upper(args) = OFF
  /\ llog = <<[line |-> "DTR", val |-> FALSE, ok |-> FALSE]>>
  /\ lastPttSet = ON
  /\ ptt_is_on = BoolV(TRUE)
  /\ resp = StrV(ERROR)

(* C15: with PTT method RTS, PTT ON / PTT OFF sets the RTS line to true /
   false; when the line set succeeds the shadow PTT state becomes the
   requested state and OK is returned, when it fails the shadow state is
   unchanged and ERROR is returned; the call always completes with a
   response. *)
C15_RtsKeying ==
  [][(pc = "called" /\ pc' = "done" /\ PttSetUnder(PttMethod_RTS))
     => LET want == Arg0Upper(args) = ON IN
        /\ resp'.tag = "str"
        /\ Len(llog') = 1 /\ llog'[1].line = "RTS" /\ llog'[1].val = want
        /\ IF llog'[1].ok
             THEN ptt_is_on' = BoolV(want) /\ resp' = StrV(OK)
             ELSE ptt_is_on' = ptt_is_on /\ resp' = StrV(ERROR)]_vars

(* PTT ON under method RTS ended in an AttributeError with the RTS line
   untouched. *)
C15_RtsSetRaised ==
  /\ pc = "done" /\ PttSetUnder(PttMethod_RTS) /\ Arg0Upper(args) = ON
  /\ llog = <<>>
  /\ ptt_is_on = BoolV(FALSE)
  /\ resp = RaiseV(Str(<<"A", "t", "t", "r", "i", "b", "u", "t", "e", "E", "r", "r", "o", "r">>))

(* C16: PTT with an empty argument under the method NONE, DTR or RTS returns
   the shadow state as ON or OFF, sets no control line, writes nothing to
   the transport and leaves the shadow state as it was. *)
C16_PttQueryReadsShadow ==
  [][(/\ pc = "called" /\ pc' = "done"
      /\ Upper(cmd) = Str(<<"P", "T", "T">>) /\ Arg0Upper(args) = <<>>
      /\ ptt_method \in {PttMethod_NONE, PttMethod_DTR, PttMethod_RTS})
     => /\ resp' = StrV(IF Truthy(ptt_is_on) THEN ON ELSE OFF)
        /\ llog' = <<>> /\ tlog' = <<>>
        /\ ptt_is_on' = ptt_is_on]_vars

(* The query under the method NONE returned ERROR. *)
C16_QueryUnderNoneIsError ==
  /\ pc = "done"
  /\ Upper(cmd) = Str(<<"P", "T", "T">>) /\ args = <<>>
  /\ ptt_method = PttMethod_NONE
  /\ ptt_is_on = BoolV(FALSE)
  /\ resp = StrV(ERROR)

(* C17: on every class and under every PTT method, PTT with an argument
   that after trimming and upper-casing is not empty, ON or OFF returns
   ERROR, writes nothing to the device, sets no control line and leaves the
   PTT shadow state unchanged. *)
C17_BadPttArgRejected ==
  [][(/\ pc = "called" /\ pc' = "done"
      /\ Upper(cmd) = Str(<<"P", "T", "T">>) /\ Arg0Upper(args) \notin {<<>>, ON, OFF})
     => /\ resp' = StrV(ERROR)
        /\ tlog' = <<>> /\ llog' = <<>>
        /\ ptt_is_on' = ptt_is_on]_vars

(* On the FT-817 class under method CAT, PTT FOO sent the PTT-off frame,
   returned OK and stored 'FOO' as the shadow state. *)
C17_Ft817SentPttOffForFoo ==
  /\ pc = "done" /\ codec = "FT817" /\ ptt_method = PttMethod_CAT
  /\ Upper(cmd) = Str(<<"P", "T", "T">>) /\ args = <<Str(<<"F", "O", "O">>)>>
  /\ Len(tlog) = 1 /\ tlog[1].frame = <<0, 0, 0, 0, 136>> /\ tlog[1].sent = 5
  /\ ptt_is_on = StrV(Str(<<"F", "O", "O">>))
  /\ resp = StrV(OK)

(* The four values of PttMethod. *)
PttMethods == {PttMethod_NONE, PttMethod_CAT, PttMethod_DTR, PttMethod_RTS}

(* C18: PTT-METHOD with an argument accepts exactly the four values NONE,
   CAT, DTR, RTS and rejects every other value, leaving the selector
   unchanged; the selector is always one of the four values; PTT-METHOD get
   and set never write to or read from the transport, never set a control
   line and never change the PTT shadow state. *)
C18_PttMethodIsLocal ==
  /\ ptt_method \in PttMethods
  /\ [][/\ ptt_method' \in PttMethods
        /\ (pc = "called" /\ pc' = "done" /\ Upper(cmd) = Str(<<"P", "T", "T", "-", "M", "E", "T", "H", "O", "D">>))
           => /\ tlog' = <<>> /\ llog' = <<>>
              /\ ptt_is_on' = ptt_is_on
              /\ IF args = <<>>
                   THEN ptt_method' = ptt_method /\ resp' = StrV(ptt_method)
                 ELSE IF args[1] \in PttMethods
                   THEN ptt_method' = args[1] /\ Truthy(resp')
                 ELSE ptt_method' = ptt_method /\ ~Truthy(resp')]_vars

(* With the selector on DTR, PTT-METHOD cat was rejected and the selector
   stayed on DTR. *)
C18_LowerCaseRejected ==
  /\ pc = "done"
  /\ Upper(cmd) = Str(<<"P", "T", "T", "-", "M", "E", "T", "H", "O", "D">>) /\ args = <<Str(<<"c", "a", "t">>)>>
  /\ ptt_method = PttMethod_DTR
  /\ resp = BoolV(FALSE)

(* Some argument of the call is no byte in hex: a character that is no hex
   digit, or a value above 0xFF. *)
BadHexArg == \E i \in 1..Len(args) : ~IsHex(args[i]) \/ HexToInt(args[i]) > 255

(* C19: HEX given an argument that is not a valid hex byte completes with
   the response ERROR and writes nothing to the transport. *)
C19_BadHexIsError ==
  (pc = "done" /\ Upper(cmd) = Str(<<"H", "E", "X">>) /\ BadHexArg)
  => resp = StrV(ERROR) /\ tlog = <<>>

(* HEX ZZ ended in a ValueError; nothing was written. *)
C19_BadHexRaised ==
  /\ pc = "done"
  /\ Upper(cmd) = Str(<<"H", "E", "X">>) /\ args = <<Str(<<"Z", "Z">>)>>
  /\ tlog = <<>>
  /\ resp = RaiseV(Str(<<"V", "a", "l", "u", "e", "E", "r", "r", "o", "r">>))

(* C20: on the FT-991 class, TONE ENC or TONE DEC with a numeric tone
   frequency that is not a key of the CTCSS table completes with the
   response ERROR, and no tone-frequency mnemonic (CN) is sent. *)
C20_UnlistedToneIsError ==
  (/\ pc = "done" /\ codec = "FT991" /\ Upper(cmd) = Str(<<"T", "O", "N", "E">>)
   /\ Arg0Upper(args) \in {Str(<<"E", "N", "C">>), Str(<<"D", "E", "C">>)}
   /\ IsNumeric(Arg1Upper(args)) /\ ~IsCtcssKey(Arg1Upper(args)))
  => /\ resp = StrV(ERROR)
     /\ \A k \in 1..Len(tlog) : ~StartsWith(tlog[k].frame, Str(<<"C", "N">>))

(* TONE ENC 9999: the mode mnemonic CT02; went out and was accepted, then
   the call ended in a NameError. *)
C20_UnlistedToneRaised ==
  /\ pc = "done" /\ codec = "FT991"
  /\ Upper(cmd) = Str(<<"T", "O", "N", "E">>) /\ args = <<Str(<<"E", "N", "C">>), Str(<<"9", "9", "9", "9">>)>>
  /\ Len(tlog) = 1 /\ tlog[1].frame = Str(<<"C", "T", "0", "2", ";">>) /\ tlog[1].sent = 5
  /\ tlog[1].got = <<>>
  /\ resp = RaiseV(Str(<<"N", "a", "m", "e", "E", "r", "r", "o", "r">>))

(* The text xcvr_cmd of the FT-991 class handed back for the k-th write of
   the call. *)
XcvrText(k) ==
  IF tlog[k].sent # Len(tlog[k].frame) THEN Str(<<"W", "R", "I", "T", "E", " ", "E", "R", "R", "O", "R">>)
  ELSE IF IsAscii(tlog[k].got) THEN tlog[k].got ELSE Str(<<"R", "E", "A", "D", " ", "E", "R", "R", "O", "R">>)

(* The call is MODEB on the FT-991 class and has returned. *)
ModeBDone == pc = "done" /\ codec = "FT991" /\ Upper(cmd) = Str(<<"M", "O", "D", "E", "B">>)

(* After the first swap: the mode command MD0..., then SV; once more, and
   the mode command's result as the value. *)
ModeBCompleted ==
  /\ Len(tlog) = 3
  /\ StartsWith(tlog[2].frame, Str(<<"M", "D", "0">>))
  /\ tlog[3].frame = Str(<<"S", "V", ";">>)
  /\ resp = ft991_op_mode_resp(XcvrText(2))

(* C21 as stated: MODEB writes SV; first; if that swap is rejected ('?;')
   no mode mnemonic is sent and ERROR is returned; otherwise the MD0 mode
   command is sent, SV; is written exactly once more whatever the mode
   command's outcome and the mode command's result is returned; only SV; and
   MD0 mnemonics are sent. *)
C21_ModeBOtherwiseCompletes ==
  ModeBDone =>
    /\ Len(tlog) >= 1 /\ tlog[1].frame = Str(<<"S", "V", ";">>)
    /\ \A k \in 1..Len(tlog) : tlog[k].frame = Str(<<"S", "V", ";">>) \/ StartsWith(tlog[k].frame, Str(<<"M", "D", "0">>))
    /\ IF XcvrText(1) = Str(<<"?", ";">>)
         THEN Len(tlog) = 1 /\ resp = StrV(ERROR)
         ELSE ModeBCompleted

(* C21 (amended): MODEB writes SV; first; if that swap does not come back OK
   (the reply '?;', a failed write, or any other reply text) no mode
   mnemonic is sent and the swap's result is returned, ERROR for '?;'; if
   it comes back OK the MD0 mode command is sent, SV; is written exactly
   once more whatever the mode command's outcome and the mode command's
   result is returned; only SV; and MD0 mnemonics are sent. *)
C21_ModeBSwapsAround ==
  ModeBDone =>
    /\ Len(tlog) >= 1 /\ tlog[1].frame = Str(<<"S", "V", ";">>)
    /\ \A k \in 1..Len(tlog) : tlog[k].frame = Str(<<"S", "V", ";">>) \/ StartsWith(tlog[k].frame, Str(<<"M", "D", "0">>))
    /\ IF XcvrText(1) # <<>>
         THEN Len(tlog) = 1 /\ resp = StrV(ft991_ok_or_error(XcvrText(1)))
         ELSE ModeBCompleted

(* MODEB USB: the swap was accepted, MD02; was rejected, and SV; was written
   again; the value is ERROR. *)
C21_SwappedBackAfterRejectedMode ==
  /\ ModeBDone /\ args = <<Str(<<"U", "S", "B">>)>>
  /\ Len(tlog) = 3
  /\ tlog[1].sent = 3 /\ tlog[1].got = <<>>
  /\ tlog[2].frame = Str(<<"M", "D", "0", "2", ";">>) /\ tlog[2].got = Str(<<"?", ";">>)
  /\ tlog[3].frame = Str(<<"S", "V", ";">>) /\ tlog[3].sent = 3
  /\ resp = StrV(ERROR)

(* A helper call has returned. *)
Calced(f) == pc = "calced" /\ fin.f = f

(* The decimal value of digits, most significant first. *)
RECURSIVE DecimalSum(_)
DecimalSum(digits) ==
  IF digits = <<>> THEN 0
  ELSE 10 * DecimalSum(SubSeq(digits, 1, Len(digits) - 1)) + digits[Len(digits)]

(* digits is val in exactly as many decimal digits as max_val has. *)
IsBcdOf(digits, val, max_val) ==
  /\ Len(digits) >= 1
  /\ Pow10(Len(digits) - 1) <= max_val /\ max_val < Pow10(Len(digits))
  /\ \A i \in 1..Len(digits) : digits[i] \in 0..9
  /\ DecimalSum(digits) = val

(* C22: for max_val >= 1 and v in 0..max_val, int_to_bcd(v, max_val) is
   exactly floor(log10(max_val)) + 1 digits, each 0..9, most significant
   first, whose decimal value is v; and at the Icom call sites (monitor
   level, RF power level, tone frequency, repeater offset) the value handed
   over is at most max_val. *)
C22_BcdIsFullWidthAndExact ==
  /\ Calced("int_to_bcd") => IsBcdOf(fout, fin.a[1], fin.a[2])
  /\ (pc = "calced" /\ fin.f \in {"set_power_level", "set_monitor_level", "tone_freq_cmd", "rpt_offset_cmd"}
        /\ fout # <<>>)
       => /\ fout[1] >= 0 /\ fout[1] <= fout[2]
          /\ IsBcdOf(SubSeq(fout, 3, Len(fout)), fout[1], fout[2])

(* max_val a power of ten, and val equal to it: four digits 1, 0, 0, 0. *)
C22_PowerOfTenInFullWidth ==
  Calced("int_to_bcd") /\ fin.a = <<1000, 1000>> /\ fout = <<1, 0, 0, 0>>

(* C23: for every integer p in 0..100, pct_to_maxbyte(maxbyte_to_pct(p))
   differs from p by at most 1. *)
C23_ScaleRoundTripWithinOne ==
  (pc = "calced2" /\ fin.f = "maxbyte_to_pct" /\ fin.a[1] \in 0..100)
    => /\ fout[2] - fin.a[1] <= 1
       /\ fin.a[1] - fout[2] <= 1

(* p = 100 goes to 39 percent and comes back as 99. *)
C23_HundredComesBackAs99 ==
  pc = "calced2" /\ fin.f = "maxbyte_to_pct" /\ fin.a = <<100>> /\ fout = <<39, 99>>

(* The call is FREQ, FREQA or FREQB on the FT-991 class and has returned. *)
Freq991Done ==
  pc = "done" /\ codec = "FT991" /\ Upper(cmd) \in {Str(<<"F", "R", "E", "Q">>), Str(<<"F", "R", "E", "Q", "A">>), Str(<<"F", "R", "E", "Q", "B">>)}

(* 'FA', or 'FB' for FREQB. *)
FreqMnemonic == IF Upper(cmd) = Str(<<"F", "R", "E", "Q", "B">>) THEN Str(<<"F", "B">>) ELSE Str(<<"F", "A">>)

(* C24: on the FT-991, FREQ/FREQA with a numeric argument of at most 9
   digits writes exactly 'FA' + the argument zero-padded to 9 digits + ';'
   and returns OK on an empty reply and ERROR on '?;'; with no argument it
   writes 'FA;' and, given the reply 'FA' + 9 digits + ';', returns the 9
   digits; FREQB does the same with 'FB'. *)
C24_Ft991FrequencyFraming ==
  Freq991Done =>
    /\ (Len(args) = 1 /\ IsNumeric(args[1]) /\ Len(args[1]) <= 9) =>
         /\ Len(tlog) = 1
         /\ tlog[1].frame = FreqMnemonic \o [i \in 1..(9 - Len(args[1])) |-> 48] \o args[1] \o Str(<<";">>)
         /\ (XcvrText(1) = <<>>) => resp = StrV(OK)
         /\ (XcvrText(1) = Str(<<"?", ";">>)) => resp = StrV(ERROR)
    /\ (args = <<>>) =>
         /\ Len(tlog) = 1
         /\ tlog[1].frame = FreqMnemonic \o Str(<<";">>)
         /\ (/\ Len(XcvrText(1)) = 12
             /\ SubSeq(XcvrText(1), 1, 2) = FreqMnemonic
             /\ IsNumeric(SubSeq(XcvrText(1), 3, 11))
             /\ XcvrText(1)[12] = 59)
              => resp = StrV(SubSeq(XcvrText(1), 3, 11))

(* FREQB 7074000 wrote 'FB007074000;' and the radio answered '?;'. *)
C24_FreqBPaddedAndRejected ==
  /\ Freq991Done /\ Upper(cmd) = Str(<<"F", "R", "E", "Q", "B">>) /\ args = <<Str(<<"7", "0", "7", "4", "0", "0", "0">>)>>
  /\ tlog[1].frame = Str(<<"F", "B", "0", "0", "7", "0", "7", "4", "0", "0", "0", ";">>) /\ tlog[1].sent = 12 /\ tlog[1].got = Str(<<"?", ";">>)
  /\ resp = StrV(ERROR)

(* FREQB with no argument read 'FB014074000;' and returned '014074000'. *)
C24_FreqBRead ==
  /\ Freq991Done /\ Upper(cmd) = Str(<<"F", "R", "E", "Q", "B">>) /\ args = <<>>
  /\ tlog[1].got = Str(<<"F", "B", "0", "1", "4", "0", "7", "4", "0", "0", "0", ";">>) /\ resp = StrV(Str(<<"0", "1", "4", "0", "7", "4", "0", "0", "0">>))

(* The call is EEPROM-READ on the FT-817 class and has returned. *)
EepromDone == pc = "done" /\ codec = "FT817" /\ Upper(cmd) = Str(<<"E", "E", "P", "R", "O", "M", "-", "R", "E", "A", "D">>)

(* The argument as the address it names: decimal digits or 0x and hex
   digits, possibly signed when decimal; -1 when it names none. *)
EepromArgAddr ==
  IF args = <<>> THEN -1
  ELSE LET s == Strip(Upper(args[1]))
           body == IF Len(s) > 0 /\ s[1] = 43 THEN Tail(s) ELSE s
       IN IF Len(body) > 2 /\ SubSeq(body, 1, 2) = Str(<<"0", "X">>) /\ body = s /\ IsHex(SubSeq(body, 3, Len(body)))
            THEN HexToInt(SubSeq(body, 3, Len(body)))
          ELSE IF IsNumeric(body) THEN ToInt(body)
          ELSE -1

(* C25: on the FT-817, EEPROM-READ with an address a in 0..0x1925, in
   decimal or 0x-prefixed hex, writes exactly the 5 bytes
   [a div 256, a mod 256, 0, 0, 0xBB] and returns OK with the two reply bytes
   when exactly 2 bytes are read; an address outside the range or one that
   cannot be parsed returns ERROR with nothing written. *)
C25_EepromReadFraming ==
  EepromDone =>
    IF EepromArgAddr \in 0..6437
      THEN /\ Len(tlog) = 1
           /\ tlog[1].frame = <<EepromArgAddr \div 256, EepromArgAddr % 256, 0, 0, 187>>
           /\ Len(tlog[1].got) = 2 =>
                resp = StrV(OK \o Str(<<" ">>) \o Hex2(tlog[1].got[1]) \o Str(<<" ">>) \o Hex2(tlog[1].got[2]))
      ELSE /\ tlog = <<>>
           /\ resp = StrV(ERROR \o Str(<<" ", "0", "0", " ", "0", "0">>))

(* EEPROM-READ 0x18ff wrote 18 FF 00 00 BB and two bytes came back. *)
C25_HexAddressRead ==
  /\ EepromDone /\ args = <<Str(<<"0", "x", "1", "8", "f", "f">>)>>
  /\ Len(tlog) = 1
  /\ tlog[1].frame = <<24, 255, 0, 0, 187>> /\ tlog[1].sent = 5
  /\ Len(tlog[1].got) = 2 /\ resp = StrV(Str(<<"O", "K", " ", "0", "0", " ", "0", "0">>))

(* EEPROM-READ 6438 wrote nothing and returned ERROR. *)
C25_OutOfRangeUnsent ==
  /\ EepromDone /\ args = <<Str(<<"6", "4", "3", "8">>)>> /\ tlog = <<>> /\ resp = StrV(Str(<<"E", "R", "R", "O", "R", " ", "0", "0", " ", "0", "0">>))

(* A set command of the FT-817 class has returned. *)
Ft817SetDone ==
  /\ pc = "done" /\ codec = "FT817" /\ IsSet
  /\ Upper(cmd) \in {Str(<<"F", "R", "E", "Q">>), Str(<<"F", "R", "E", "Q", "A">>), Str(<<"F", "R", "E", "Q", "B">>), Str(<<"S", "P", "L", "I", "T">>), Str(<<"V", "F", "O">>)}

(* The frames of the call that set something: every opcode but the EEPROM
   read (0xBB) and the frequency and mode read (0x03). *)
SetFrames == { k \in 1..Len(tlog) : tlog[k].frame[5] \notin {187, 3} }

(* C26: on the FT-817 a set operation reports success only when the reply
   to each of its set frames is exactly the one byte 0x00; a one-byte reply
   of another value is a failure. *)
C26_SetNeedsZeroAck ==
  (Ft817SetDone /\ resp = StrV(OK)) => \A k \in SetFrames : tlog[k].got = <<0>>

(* SPLIT ON: the radio answered the one byte 0xF0 and the value is OK. *)
C26_SplitOkOnNonZeroByte ==
  /\ Ft817SetDone /\ Upper(cmd) = Str(<<"S", "P", "L", "I", "T">>) /\ args = <<Str(<<"O", "N">>)>>
  /\ Len(tlog) = 1 /\ tlog[1].frame = <<0, 0, 0, 0, 2>> /\ tlog[1].got = <<240>>
  /\ resp = StrV(OK)

(* A command of the FT-817 class has returned. *)
Ft817Done ==
  /\ pc = "done" /\ codec = "FT817"
  /\ Upper(cmd) \in {Str(<<"F", "R", "E", "Q">>), Str(<<"F", "R", "E", "Q", "A">>), Str(<<"F", "R", "E", "Q", "B">>), Str(<<"S", "P", "L", "I", "T">>), Str(<<"V", "F", "O">>)}

(* C27: on the FT-817, when the write of a 5-byte frame fails (fewer than 5
   bytes written) no read is made for that frame and the operation reports
   ERROR. *)
C27_NoReadAfterFailedWrite ==
  Ft817Done =>
    \A k \in 1..Len(tlog) :
      tlog[k].sent < 5 => tlog[k].reads = 0 /\ resp = StrV(ERROR)

(* SPLIT ON: the write of 00 00 00 00 02 failed and a read was made. *)
C27_SplitReadAfterFailedWrite ==
  /\ Ft817Done /\ Upper(cmd) = Str(<<"S", "P", "L", "I", "T">>) /\ args = <<Str(<<"O", "N">>)>>
  /\ Len(tlog) = 1 /\ tlog[1].sent = 0 /\ tlog[1].reads = 1
  /\ resp = StrV(ERROR)

(* The call is VFO with a target on the FT-817 class and has returned. *)
Vfo817SetDone == pc = "done" /\ codec = "FT817" /\ Upper(cmd) = Str(<<"V", "F", "O">>) /\ IsSet

(* The frames of the call that carry the toggle opcode 0x81. *)
ToggleFrames == { k \in 1..Len(tlog) : tlog[k].frame = <<0, 0, 0, 0, 129>> }

(* The VFO status read of the call succeeded, and the VFO it read. *)
VfoReadOk == Len(tlog) >= 1 /\ Len(tlog[1].got) = 2
VfoRead == IF tlog[1].got[1] % 2 = 1 THEN VfoB ELSE VfoA

(* C28: FT-817 set_vfo(target) first makes the VFO status read (EEPROM
   address 0x55); it writes the toggle opcode 0x81 if and only if that read
   succeeded, target is 'A' or 'B', and the VFO read differs from target; if
   the read fails it returns failure without toggling, and if the VFO read
   equals target it returns success without writing a toggle. *)
C28_ToggleOnlyWhenDifferent ==
  Vfo817SetDone =>
    /\ Len(tlog) >= 1 /\ tlog[1].frame = <<0, 85, 0, 0, 187>>
    /\ ToggleFrames \subseteq {2} /\ Len(tlog) <= 2
    /\ (ToggleFrames # {}) <=>
         (VfoReadOk /\ Arg0Upper(args) \in {VfoA, VfoB} /\ VfoRead # Arg0Upper(args))
    /\ ~VfoReadOk => (resp = StrV(ERROR) /\ Len(tlog) = 1)
    /\ (VfoReadOk /\ VfoRead = Arg0Upper(args)) => (resp = StrV(OK) /\ Len(tlog) = 1)

(* VFO B with the radio on VFO-A: the status read, then the toggle, which
   the radio acknowledged. *)
C28_ToggledToB ==
  /\ Vfo817SetDone /\ Arg0Upper(args) = VfoB
  /\ Len(tlog) = 2 /\ tlog[1].got = <<0, 0>>
  /\ tlog[2].frame = <<0, 0, 0, 0, 129>> /\ tlog[2].got = <<0>>
  /\ resp = StrV(OK)

(* VFO B with the radio on VFO-B already: the status read only. *)
C28_AlreadyOnB ==
  /\ Vfo817SetDone /\ Arg0Upper(args) = VfoB
  /\ Len(tlog) = 1 /\ tlog[1].got = <<1, 0>> /\ resp = StrV(OK)

(* The data-mode names an Icom class without data modes sends as the
   voice codes. *)
AliasedMode == IsIcom(codec) /\ fin.a \in {Str(<<"D", "A", "T", "A", "-", "L", "S", "B">>), Str(<<"D", "A", "T", "A", "-", "U", "S", "B">>), Str(<<"D", "A", "T", "A", "-", "F", "M">>)}

(* C29: for each class, for every mode the mode set path accepts (the
   data-mode names aliased to voice codes aside), when the radio reports the
   code the set path sends for it, the mode get path returns that same mode
   name. *)
C29_ModeMapsInverse ==
  (fin.f = "set_mode" /\ pc \in {"calced2", "raised"} /\ ~AliasedMode)
    => (pc = "calced2" /\ fout = fin.a)

(* FT-817: CW-R is sent as code 3, and the get path raises on code 3. *)
C29_Ft817CwRRaises ==
  /\ codec = "FT817" /\ fin.f = "set_mode" /\ fin.a = Str(<<"C", "W", "-", "R">>)
  /\ pc = "raised" /\ fout = Str(<<"A", "t", "t", "r", "i", "b", "u", "t", "e", "E", "r", "r", "o", "r">>)

(* Apart from CW-R on the FT-817 the two maps are inverse. *)
C29_InverseButFt817CwR ==
  (fin.f = "set_mode" /\ pc \in {"calced2", "raised"} /\ ~AliasedMode
     /\ ~(codec = "FT817" /\ fin.a = Str(<<"C", "W", "-", "R">>)))
    => (pc = "calced2" /\ fout = fin.a)

(* C30: for every frequency f in 100,000..450,000,000 Hz, on the FT-817 the
   4 BCD bytes the frequency set writes, decoded by the frequency get, give
   f rounded down to a multiple of 10 Hz; on the Icom classes the 5 BCD
   bytes written, least significant digit pair first, decoded by the get,
   give exactly f. *)
C30_FrequencyBcdRoundTrip ==
  /\ (pc = "calced" /\ fin.f = "set_frequency_hz" /\ fin.a[1] \in FreqMin..FreqMax)
       => /\ Len(fout) = IF codec = "FT817" THEN 4 ELSE 5
          /\ IsIcom(codec) => fout[1] = 16 * ((fin.a[1] \div 10) % 10) + (fin.a[1] % 10)
  /\ (pc = "calced2" /\ fin.f = "set_frequency_hz" /\ fin.a[1] \in FreqMin..FreqMax)
       => fout = <<IF codec = "FT817" THEN fin.a[1] - (fin.a[1] % 10) ELSE fin.a[1]>>

(* FT-817: 7,074,005 Hz goes out as 00 70 74 00 and reads back as
   7,074,000 Hz. *)
C30_Ft817RoundsDownToTen ==
  /\ codec = "FT817" /\ fin.f = "set_frequency_hz" /\ fin.a = <<7074005>>
  /\ pc = "calced2" /\ fout = <<7074000>>

(* Icom: 432,109,876 Hz reads back as itself. *)
C30_IcomExact ==
  /\ IsIcom(codec) /\ fin.f = "set_frequency_hz" /\ fin.a = <<432109876>>
  /\ pc = "calced2" /\ fout = <<432109876>>

(* A level has been set and read back by the helper calls. *)
LevelReadBack == pc = "calced2" /\ fin.f \in {"power_level", "monitor_level", "speech_level"}

(* C31: on the Icom classes, for each level quantity (monitor, speech
   processor, RF power) and each percentage p in 0..100, the percentage the
   get path decodes from the bytes the set path encodes for p is within 1
   of p. *)
C31_LevelRoundTripWithinOne ==
  LevelReadBack => (fout[1] - fin.a[1] <= 1 /\ fin.a[1] - fout[1] <= 1)

(* The speech processor level 19 is sent as 1 and read back as 10. *)
C31_Speech19ReadsBack10 ==
  LevelReadBack /\ fin.f = "speech_level" /\ fin.a = <<19>> /\ fout = <<10>>

(* The monitor and RF power levels come back exactly, the speech level
   rounded down to a multiple of ten. *)
C31_ExactButSpeech ==
  LevelReadBack =>
    fout[1] = IF fin.f = "speech_level" THEN fin.a[1] - (fin.a[1] % 10) ELSE fin.a[1]


(* A command of the Icom class has returned. *)
IcomDone == pc = "done" /\ IsIcom(codec) /\ via = "vendor"

(* The frame is FE FE addr E0 cmd ... FD with no other FD in it. *)
IsCivFrame(frame, addr) ==
  /\ Len(frame) >= 6
  /\ SubSeq(frame, 1, 4) = <<254, 254, addr, 224>>
  /\ \A i \in 1..Len(frame) : frame[i] = 253 <=> i = Len(frame)

(* The calls of xcvr_cmd made by the command, in order. *)
XcvrCalls == SelectSeq(calls, LAMBDA k : k.fn = "xcvr_cmd")

(* C32: every frame the Icom class writes is FE FE, the device address, E0,
   the command byte, subcommand and data bytes, and a single FD; the read
   after a complete write asks for 6 + the frame length (the line echoes) +
   max_data bytes, no read follows an incomplete write; and on success the
   data returned are the max_data bytes after the command byte of the
   reply. *)
C32_CivTransaction ==
  IcomDone =>
    /\ Len(XcvrCalls) = Len(tlog)
    /\ \A j \in 1..Len(tlog) :
         LET e == tlog[j]
             k == XcvrCalls[j]
             n == Len(e.frame)
             lead == IF EchoOf(codec) THEN n ELSE 0
         IN /\ IsCivFrame(e.frame, IcomAddrOf(codec))
            /\ k.t0 = j - 1 /\ k.t1 = j
            /\ IF e.sent = n
                 THEN e.reads = 1 /\ e.asked = 6 + lead + k.n
                 ELSE e.reads = 0 /\ ~k.ok
            /\ k.ok => /\ Len(e.got) = 6 + lead + k.n
                       /\ k.data = SubSeq(e.got, lead + 6, lead + 5 + k.n)

(* A frequency read on the Icom class succeeded and returned five bytes. *)
C32_FiveDataBytesReturned ==
  /\ IcomDone /\ Len(tlog) >= 1
  /\ \E j \in 1..Len(XcvrCalls) :
       /\ XcvrCalls[j].ok /\ XcvrCalls[j].n = 5 /\ Len(XcvrCalls[j].data) = 5
       /\ tlog[j].asked = 11 + Len(tlog[j].frame)


(* RPT-OFFSET on the FT-817 class has returned. *)
RptOffsetDone == pc = "done" /\ codec = "FT817" /\ Upper(cmd) = Str(<<"R", "P", "T", "-", "O", "F", "F", "S", "E", "T">>)

(* The offset argument is a whole number within +/- 9,999,999. *)
RptOffsetValid ==
  /\ IsSignedInt(Arg0Upper(args))
  /\ SignedInt(Arg0Upper(args)) >= -9999999 /\ SignedInt(Arg0Upper(args)) <= 9999999

(* The number the four BCD bytes of a frame spell, most significant first. *)
Bcd4(frame) ==
  LET d(b) == (b \div 16) * 10 + (b % 16)
  IN ((d(frame[1]) * 100 + d(frame[2])) * 100 + d(frame[3])) * 100 + d(frame[4])

(* C33: RPT-OFFSET on the FT-817 class.  A non-zero offset within
   +/- 9,999,999 writes the shift command (opcode 0x09, 0x09 for minus and
   0x49 for plus) first, and the magnitude command (opcode 0xF9) after it
   exactly when the reply to the shift command was the single byte 0x00;
   offset zero writes the simplex shift command (0x89) and nothing else; an
   offset that is no whole number or is out of range writes nothing and
   returns ERROR. *)
C33_RptOffsetSequence ==
  RptOffsetDone =>
    IF ~RptOffsetValid THEN tlog = <<>> /\ resp = StrV(ERROR)
    ELSE LET v == SignedInt(Arg0Upper(args)) IN
         IF v = 0 THEN Len(tlog) = 1 /\ tlog[1].frame = <<137, 0, 0, 0, 9>>
         ELSE /\ Len(tlog) \in {1, 2}
              /\ tlog[1].frame = <<(IF v < 0 THEN 9 ELSE 73), 0, 0, 0, 9>>
              /\ Len(tlog) = 2 <=> tlog[1].got = <<0>>
              /\ Len(tlog) = 2 =>
                   /\ Len(tlog[2].frame) = 5 /\ tlog[2].frame[5] = 249
                   /\ Bcd4(tlog[2].frame) = (IF v < 0 THEN 0 - v ELSE v)

(* RPT-OFFSET -600000: minus shift acknowledged, then 00 60 00 00 F9. *)
C33_MinusShiftThenMagnitude ==
  /\ RptOffsetDone /\ args = <<Str(<<"-", "6", "0", "0", "0", "0", "0">>)>>
  /\ Len(tlog) = 2
  /\ tlog[1].frame = <<9, 0, 0, 0, 9>> /\ tlog[1].got = <<0>>
  /\ tlog[2].frame = <<0, 96, 0, 0, 249>>
  /\ resp = StrV(OK)


(* The codes of the CTCSS table. *)
CtcssCodes == { CTCSS_TONES[i][2] : i \in 1..Len(CTCSS_TONES) }

(* The codes of the CTCSS table increase with the frequency. *)
CtcssMonotone ==
  \A i, j \in 1..Len(CTCSS_TONES) :
    CTCSS_TONES[i][1] < CTCSS_TONES[j][1] => CTCSS_TONES[i][2] < CTCSS_TONES[j][2]

(* C34: the CTCSS table of the FT-991 class holds 50 pairs of a frequency
   and a three-digit code, the codes are 000 to 049, each used once, and
   they increase with the frequency. *)
C34_CtcssTableIsFiftyCodes ==
  codec = "FT991" =>
    /\ Len(CTCSS_TONES) = 50
    /\ Cardinality({ CTCSS_TONES[i][1] : i \in 1..Len(CTCSS_TONES) }) = 50
    /\ CtcssCodes = 0..49
    /\ \A i \in 1..Len(CTCSS_TONES) : Len(CtcssCode(IntToStr(CTCSS_TONES[i][1]))) = 3
    /\ CtcssMonotone

(* TONE ENC 719 on the FT-991 class: the third frequency of the table goes
   out as code 003. *)
C34_ThirdToneSentAsCode3 ==
  /\ pc = "done" /\ codec = "FT991"
  /\ Upper(cmd) = Str(<<"T", "O", "N", "E">>) /\ args = <<Str(<<"E", "N", "C">>), Str(<<"7", "1", "9">>)>>
  /\ Len(tlog) = 2 /\ tlog[2].frame = Str(<<"C", "N", "0", "0", "0", "0", "3", ";">>)
  /\ CTCSS_TONES[3] = <<719, 3>>

(* The table holds 49 pairs, code 002 is not among them, and what the
   table has increases with the frequency. *)
C34_FortyNineWithoutCode2 ==
  codec = "FT991" =>
    /\ Len(CTCSS_TONES) = 49
    /\ CtcssCodes = (0..49) \ {2}
    /\ CtcssMonotone


(* MONITOR or SPEECH on the FT-991 class has returned. *)
Level991Done ==
  /\ pc = "done" /\ codec = "FT991"
  /\ Upper(cmd) \in {Str(<<"M", "O", "N", "I", "T", "O", "R">>), Str(<<"S", "P", "E", "E", "C", "H">>)}

(* The level argument is there and is not a whole number of 0 to 100. *)
Level991Bad ==
  /\ Len(Arg1Upper(args)) > 0
  /\ ~IsNumeric(Arg1Upper(args)) \/ ToInt(Arg1Upper(args)) > 100

(* The enable mnemonic of the call, and its level mnemonic with the level
   as three digits. *)
EnableMnemonic ==
  IF Upper(cmd) = Str(<<"M", "O", "N", "I", "T", "O", "R">>)
    THEN (IF Arg0Upper(args) = ON THEN Str(<<"M", "L", "0", "0", "0", "1", ";">>) ELSE Str(<<"M", "L", "0", "0", "0", "0", ";">>))
    ELSE (IF Arg0Upper(args) = ON THEN Str(<<"P", "R", "0", "1", ";">>) ELSE Str(<<"P", "R", "0", "0", ";">>))
LevelMnemonic ==
  (IF Upper(cmd) = Str(<<"M", "O", "N", "I", "T", "O", "R">>) THEN Str(<<"M", "L", "1">>) ELSE Str(<<"P", "L">>))
    \o ZFill(IntToStr(ToInt(Arg1Upper(args))), 3) \o Str(<<";">>)

(* The first transaction of the call was rejected by the radio. *)
EnableRejected == tlog[1].got = Str(<<"?", ";">>)

(* The first transaction of the call failed: its write was incomplete, or
   the radio rejected it, or what came back is no text. *)
EnableFailed ==
  \/ tlog[1].sent # Len(tlog[1].frame)
  \/ EnableRejected
  \/ ~IsAscii(tlog[1].got)

(* The response is two results with a colon between them. *)
IsPairResponse == resp.tag = "str" /\ \E i \in 1..Len(resp.s) : resp.s[i] = 58

(* C35: on the FT-991 class, MONITOR and SPEECH with a level argument that
   is non-numeric or outside 0-100 return ERROR with nothing written;
   otherwise, with ON or OFF, the enable mnemonic is sent first, the level
   mnemonic (the level as three digits) is sent after it exactly when a
   level was given and the enable step did not fail, and the response of
   a call whose enable step did not fail is '<onoff-result>:<level-result>'. *)
C35_LevelAfterEnable ==
  Level991Done =>
    IF Level991Bad THEN tlog = <<>> /\ resp = StrV(ERROR)
    ELSE Arg0Upper(args) \in {ON, OFF} =>
      /\ Len(tlog) \in {1, 2}
      /\ tlog[1].frame = EnableMnemonic
      /\ Len(tlog) = 2 <=> (Len(Arg1Upper(args)) > 0 /\ ~EnableFailed)
      /\ Len(tlog) = 2 => tlog[2].frame = LevelMnemonic
      /\ ~EnableFailed => IsPairResponse

(* MONITOR ON 50: the write of ML0001; failed, ML1050; was sent all the
   same, and the response is 'WRITE ERROR:OK'. *)
C35_LevelSentAfterFailedEnableWrite ==
  /\ Level991Done /\ Upper(cmd) = Str(<<"M", "O", "N", "I", "T", "O", "R">>) /\ args = <<Str(<<"O", "N">>), Str(<<"5", "0">>)>>
  /\ Len(tlog) = 2
  /\ tlog[1].frame = Str(<<"M", "L", "0", "0", "0", "1", ";">>) /\ tlog[1].sent = 0
  /\ tlog[2].frame = Str(<<"M", "L", "1", "0", "5", "0", ";">>) /\ tlog[2].sent = 7
  /\ resp = StrV(Str(<<"W", "R", "I", "T", "E", " ", "E", "R", "R", "O", "R", ":", "O", "K">>))

(* With "the enable step failed" read as "the radio rejected it", the only
   failure the handlers look for, the sequence is as described. *)
C35_LevelAfterEnableNotRejected ==
  Level991Done =>
    IF Level991Bad THEN tlog = <<>> /\ resp = StrV(ERROR)
    ELSE Arg0Upper(args) \in {ON, OFF} =>
      /\ Len(tlog) \in {1, 2}
      /\ tlog[1].frame = EnableMnemonic
      /\ Len(tlog) = 2 <=> (Len(Arg1Upper(args)) > 0 /\ ~EnableRejected)
      /\ Len(tlog) = 2 => tlog[2].frame = LevelMnemonic
      /\ IF EnableRejected THEN resp = StrV(ERROR) ELSE IsPairResponse


(* The text of a line before its first '#', without the whitespace around
   it. *)
CleanLine(line) ==
  LET n == CHOOSE k \in 0..Len(line) :
             /\ \A i \in 1..k : line[i] # 35
             /\ k = Len(line) \/ line[k + 1] = 35
  IN Strip(SubSeq(line, 1, n))

(* The commands of the file: its cleaned lines that are not empty, in file
   order. *)
FileCommands ==
  SelectSeq([i \in 1..Len(filename.lines) |-> CleanLine(filename.lines[i])],
            LAMBDA x : x # <<>>)

(* C36: after a successful open, successive next_command calls return, in
   file order, exactly the lines that are non-empty after removing
   everything from the first '#' and trimming whitespace, each with success
   true; at the end of the file, and whenever the file is not open, the call
   returns success false with the message 'EOF'. *)
C36_CommandsInFileOrder ==
  /\ Len(yielded) <= Len(FileCommands)
  /\ yielded = SubSeq(FileCommands, 1, Len(yielded))
  /\ fres.op = "next_command" =>
       IF fres.success
         THEN /\ fres.opened /\ fres.errmsg = <<>>
              /\ yielded # <<>> /\ fres.command = yielded[Len(yielded)]
         ELSE /\ fres.errmsg = Str(<<"E", "O", "F">>)
              /\ fres.opened => yielded = FileCommands
              /\ ~fres.opened => fileobj = <<>>

(* A file of a command with a comment, a comment line and a line with
   three '#': two commands were handed out, then EOF. *)
C36_TwoCommandsThenEof ==
  /\ filename.exists
  /\ filename.lines = <<Str(<<" ", "P", "T", "T", " ", "O", "N", " ", "#", " ", "x">>), Str(<<"#", " ", "c">>), Str(<<"A", "#", "B", "#", "C">>)>>
  /\ yielded = <<Str(<<"P", "T", "T", " ", "O", "N">>), Str(<<"A">>)>>
  /\ fres.op = "next_command" /\ fres.opened /\ ~fres.success /\ fres.errmsg = Str(<<"E", "O", "F">>)

(* next_command after close: EOF, although lines are left in the file. *)
C36_EofAfterClose ==
  /\ filename.exists /\ Len(FileCommands) = 2 /\ Len(yielded) = 1
  /\ fres.op = "next_command" /\ ~fres.opened /\ ~fres.success /\ fres.errmsg = Str(<<"E", "O", "F">>)


(* FREQ, FREQA or FREQB with a numeric argument of value zero has returned
   on the FT-817 class or an Icom class. *)
FreqZeroDone ==
  /\ pc = "done" /\ (codec = "FT817" \/ IsIcom(codec))
  /\ Upper(cmd) \in {Str(<<"F", "R", "E", "Q">>), Str(<<"F", "R", "E", "Q", "A">>), Str(<<"F", "R", "E", "Q", "B">>)}
  /\ IsNumeric(Arg0(args)) /\ ToInt(Arg0(args)) = 0

(* The frame sets the frequency (FT-817 opcode 0x01, CI-V command 0x05), or
   reads it (opcode 0x03, command 0x03). *)
IsSetFreqFrame(frame) ==
  IF codec = "FT817" THEN Len(frame) = 5 /\ frame[5] = 1
  ELSE Len(frame) >= 6 /\ frame[5] = 5
IsReadFreqFrame(frame) ==
  IF codec = "FT817" THEN frame = <<0, 0, 0, 0, 3>>
  ELSE Len(frame) = 6 /\ frame[5] = 3

(* C37: on the FT-817 and Icom classes, FREQ, FREQA or FREQB with a numeric
   argument whose value is zero is handled as a query: no set-frequency
   frame is written, and the response is ERROR or nine digits, never OK;
   when the radio's answer to the frequency read arrived, and when nothing
   went wrong on the line at all, it is the radio's frequency (7,074,000 Hz)
   padded to nine digits. *)
C37_ZeroIsAQuery ==
  FreqZeroDone =>
    /\ \A k \in 1..Len(tlog) : ~IsSetFreqFrame(tlog[k].frame)
    /\ resp # StrV(OK)
    /\ resp = StrV(ERROR) \/ (resp.tag = "str" /\ Len(resp.s) = 9 /\ IsNumeric(resp.s))
    /\ \A k \in 1..Len(tlog) :
         IsReadFreqFrame(tlog[k].frame) /\ tlog[k].kind = "good"
           => resp = StrV(Str(<<"0", "0", "7", "0", "7", "4", "0", "0", "0">>))
    /\ (\A k \in 1..Len(tlog) : tlog[k].sent = Len(tlog[k].frame) /\ tlog[k].kind = "good")
         => resp = StrV(Str(<<"0", "0", "7", "0", "7", "4", "0", "0", "0">>))

(* FREQB 0 on the FT-817 class answered 007074000. *)
C37_FreqBZeroAnswersFrequency ==
  /\ FreqZeroDone /\ codec = "FT817" /\ Upper(cmd) = Str(<<"F", "R", "E", "Q", "B">>) /\ args = <<Str(<<"0">>)>>
  /\ \E k \in 1..Len(tlog) : IsReadFreqFrame(tlog[k].frame) /\ tlog[k].kind = "good"
  /\ resp = StrV(Str(<<"0", "0", "7", "0", "7", "4", "0", "0", "0">>))


(* TONE ENC or TONE DEC with a numeric tone frequency outside 670..2541 has
   returned on the FT-817 class or an Icom class. *)
ToneOutOfRangeDone ==
  /\ pc = "done" /\ (codec = "FT817" \/ IsIcom(codec))
  /\ Upper(cmd) = Str(<<"T", "O", "N", "E">>)
  /\ Arg0Upper(args) \in {Str(<<"E", "N", "C">>), Str(<<"D", "E", "C">>)}
  /\ IsNumeric(Arg1Upper(args))
  /\ ~(ToInt(Arg1Upper(args)) >= 670 /\ ToInt(Arg1Upper(args)) <= 2541)

(* The frames of the call are the tone-mode frames of the class and nothing
   else: one frame of opcode 0x0A on the FT-817, the tone (0x16 0x42) and
   tone-squelch (0x16 0x43) frames on an Icom. *)
OnlyToneModeFrames ==
  IF codec = "FT817"
    THEN /\ Len(tlog) = 1
         /\ tlog[1].frame = <<(IF Arg0Upper(args) = Str(<<"E", "N", "C">>) THEN 74 ELSE 42), 0, 0, 0, 10>>
    ELSE /\ Len(tlog) = 2
         /\ SubSeq(tlog[1].frame, 5, 7) = <<22, 66, 1>>
         /\ SubSeq(tlog[2].frame, 5, 7) = <<22, 67, (IF Arg0Upper(args) = Str(<<"D", "E", "C">>) THEN 1 ELSE 0)>>

(* C38: on the FT-817 and Icom classes, TONE ENC or TONE DEC with a numeric
   tone frequency outside [670, 2541] returns ERROR after the tone-mode
   command(s) have been written, and no tone-frequency frame (FT-817 opcode
   0x0B, CI-V command 0x1B) is written. *)
C38_ToneRangeCheckedAfterMode ==
  ToneOutOfRangeDone =>
    /\ resp = StrV(ERROR)
    /\ OnlyToneModeFrames
    /\ \A k \in 1..Len(tlog) :
         tlog[k].frame[5] # (IF codec = "FT817" THEN 11 ELSE 27)

(* TONE ENC 9999 on the FT-817 class: the mode frame 4A 00 00 00 0A went
   out and was acknowledged, and the answer is ERROR. *)
C38_ModeSetThenError ==
  /\ ToneOutOfRangeDone /\ codec = "FT817" /\ args = <<Str(<<"E", "N", "C">>), Str(<<"9", "9", "9", "9">>)>>
  /\ Len(tlog) = 1 /\ tlog[1].frame = <<74, 0, 0, 0, 10>>
  /\ tlog[1].sent = 5 /\ tlog[1].got = <<0>>
  /\ resp = StrV(ERROR)

(* TONE DEC 100 on an Icom class: both mode frames were acknowledged. *)
C38_IcomBothModeFramesThenError ==
  /\ ToneOutOfRangeDone /\ IsIcom(codec) /\ args = <<Str(<<"D", "E", "C">>), Str(<<"1", "0", "0">>)>>
  /\ Len(tlog) = 2 /\ tlog[1].kind = "good" /\ tlog[2].kind = "good"
  /\ resp = StrV(ERROR)


(* C39: for every integer p in 0..100, maxbyte_to_pct(pct_to_maxbyte(p)) is
   p: a percentage taken to the 0-255 scale and back comes back exactly. *)
C39_PctRoundTripExact ==
  (pc = "calced2" /\ fin.f = "pct_to_maxbyte" /\ fin.a[1] \in 0..100)
    => Len(fout) = 2 /\ fout[2] = fin.a[1]

(* p = 19 goes to 48 of 255 and comes back as 19. *)
C39_NineteenVia48 ==
  pc = "calced2" /\ fin.f = "pct_to_maxbyte" /\ fin.a = <<19>> /\ fout = <<48, 19>>
====
